---- MODULE Spec2Model ----
(***************************************************************************)
(* One SOCKS5 session of micro-socks (main.go): handleConnection,          *)
(* negotiateAuth, handleRequest, writeReply, writeBoundSuccess,            *)
(* mapDialError and the two relay goroutines.                              *)
(*                                                                         *)
(* Every blocking socket call of the handler is one action.  The bytes a   *)
(* read returns, the time a blocking call takes, the outcome of the dial   *)
(* and the client going away are inputs chosen with \E.                    *)
(***************************************************************************)
EXTENDS Integers, Sequences, FiniteSets, TLC

(***************************************************************************)
(* Protocol constants, main.go:21-43                                       *)
(***************************************************************************)
VERSION == 5
CMD_CONNECT == 1
ATYP_IPV4 == 1
ATYP_DOMAINNAME == 3
ATYP_IPV6 == 4
AUTH_NONE == 0
AUTH_USERNAME == 2
AUTH_NOACCEPT == 255
REP_SUCCESS == 0
REP_GENERAL_FAILURE == 1
REP_NETWORK_UNREACHABLE == 3
REP_HOST_UNREACHABLE == 4
REP_CONNECTION_REFUSED == 5
REP_CMD_NOT_SUPPORTED == 7
REP_ATYP_NOT_SUPPORTED == 8

\* version byte of the username/password sub-negotiation, main.go:253
SUBNEG_VERSION == 1
\* conn.SetDeadline(time.Now().Add(15 * time.Second)), main.go:190
HandshakeTimeout == 15
\* net.Dialer{Timeout: 15 * time.Second}, main.go:367
DialTimeout == 15

(***************************************************************************)
(* Bounds of the model                                                     *)
(***************************************************************************)
\* longest list of offered methods in a greeting
MaxMethods == 2
\* longest username / password a client presents
MaxCred == 2
\* longest domain name in a request
MaxDomain == 1

\* method identifiers a client offers: no-auth, GSSAPI, username/password
MethodBytes == {0, 1, 2}
\* first byte of a greeting or of a request header
VersionBytes == {4, 5}
\* first byte of the sub-negotiation message
SubnegBytes == {1, 5}
\* command bytes: connect, bind, udp associate
CommandBytes == {1, 2, 3}
\* reserved byte of the request header
ReservedBytes == {0, 9}
\* address-type bytes: the three supported ones, 0x7F and 0
AtypBytes == {1, 3, 4, 127, 0}
\* characters of usernames, passwords ("a", "w") and domain names
CredBytes == {97, 119}
DomainBytes == {97}
\* the two bytes of a port: 80, 443 and 65535
PortBytes == {<<0, 80>>, <<1, 187>>, <<255, 255>>}
\* seconds a blocking call may take
Delays == {0, 5, 15}

NoDeadline == -1

(***************************************************************************)
(* Helpers                                                                 *)
(***************************************************************************)
SeqsOfLen(S, n) == [1..n -> S]

\* 4-byte addresses a client names
IPv4Addrs == {<<127, 0, 0, 1>>, <<10, 0, 0, 2>>}

V4InV6Prefix == <<0, 0, 0, 0, 0, 0, 0, 0, 0, 0, 255, 255>>

\* 16-byte addresses a client names: ::1, 2001:db8::1 and ::ffff:127.0.0.1
IPv6Addrs ==
    { <<0, 0, 0, 0, 0, 0, 0, 0, 0, 0, 0, 0, 0, 0, 0, 1>>,
      <<32, 1, 13, 184, 0, 0, 0, 0, 0, 0, 0, 0, 0, 0, 0, 1>>,
      V4InV6Prefix \o <<127, 0, 0, 1>> }

\* config.Users as loadUsers leaves it: no empty username, no empty password
\* (main.go:173-175); the empty mapping when no user file is given.
UserMaps ==
    { <<>>,
      [u \in {<<97>>} |-> <<119>>],
      [u \in {<<97>>, <<97, 119>>} |-> IF u = <<97>> THEN <<119>> ELSE <<119, 97>>] }

VARIABLES
    users,          \* config.Users: username -> password
    pc,             \* position of the handling goroutine
    now,            \* seconds since the connection was accepted
    deadline,       \* deadline of the client socket (absolute), or NoDeadline
    deadlineLog,    \* every argument SetDeadline was called with, in order
    peerGone,       \* the client has closed or reset its connection
    out,            \* every conn.Write of the handshake: [data, ok]
    negRead,        \* bytes negotiateAuth has read from the client
    reqRead,        \* bytes handleRequest has read from the client
    header,         \* negotiateAuth: header
    methods,        \* negotiateAuth: methods
    chosenMethod,   \* negotiateAuth: chosenMethod
    auth,           \* negotiateAuth: auth
    username,       \* negotiateAuth: username
    passwordLen,    \* negotiateAuth: passwordLen
    password,       \* negotiateAuth: password
    negErr,         \* what negotiateAuth returned: "pending", "nil" or the error
    presented,      \* history: the credentials the client presented
    reqHeader,      \* handleRequest: header
    domainLen,      \* handleRequest: domainLen
    dstAddr,        \* handleRequest: dstAddr
    dstPort,        \* handleRequest: dstPort
    dials,          \* history: every dialer.Dial, its target address
    dialErr,        \* handleRequest: err of the dial
    targetLocal,    \* targetConn.LocalAddr() once the dial succeeded
    reqErr,         \* what handleRequest returned: "pending", "nil" or the error
    wg,             \* sync.WaitGroup counter
    task,           \* position of each relay goroutine
    connCloses,     \* number of conn.Close() calls
    targetCloses,   \* number of targetConn.Close() calls
    stalled,        \* the client has stopped sending during the handshake
    sent,           \* relay: the bytes each source has sent, per direction
    srcEOF,         \* relay: the source has closed its write side
    rd,             \* relay: how many bytes of sent the copy loop has read
    chunk,          \* relay: the bytes read and not yet written
    recv,           \* relay: the bytes written to each destination
    copyErr,        \* relay: what io.CopyBuffer returned, or "pending"
    mark,           \* history: Len(sent) of the other side when a source ended
    targetGone,     \* the target has reset its connection
    closeWrites,    \* number of CloseWrite() calls on each socket
    listener,       \* server: "open" or "closed"
    mainPc,         \* server: position of main
    acceptErr,      \* server: err of the last listener.Accept(), Nil for nil
    signalled,      \* server: SIGINT/SIGTERM has been delivered
    sess,           \* server: the handling goroutines
    pool,           \* server: bufPool, the buffers put back
    mapErr,         \* mapDialError: its argument err
    mapRep,         \* mapDialError: <<the byte it returned>>, Nil before
    blocked         \* relay: the sockets whose peer has stopped reading

conn == <<now, deadline, deadlineLog, peerGone, out, connCloses>>
negLocals == <<header, methods, chosenMethod, auth, username, passwordLen,
               password>>
reqLocals == <<reqHeader, domainLen, dstAddr, dstPort, dialErr, targetLocal>>
relay == <<wg, task, targetCloses>>
relayData == <<sent, srcEOF, rd, chunk, recv, copyErr, mark, targetGone>>
server == <<listener, mainPc, acceptErr, signalled, sess, pool>>
pure == <<mapErr, mapRep>>
ext == <<stalled, relayData, closeWrites, server, pure, blocked>>
vars == <<users, pc, conn, negRead, reqRead, negLocals, negErr, presented,
          reqLocals, dials, reqErr, relay, ext>>

Dirs == {"c2t", "t2c"}

\* the two sockets of a session
Sockets == {"client", "target"}

\* the handling goroutines the model follows at once
MaxSessions == 2
Sessions == 1 .. MaxSessions

\* a slot no connection has been accepted into
FreeSession ==
    [st |-> "free", tasks |-> [d \in Dirs |-> "idle"],
     bufs |-> [d \in Dirs |-> 0], closes |-> 0]

\* the relay before handleRequest has started it
InitRelayData ==
    /\ sent = [d \in Dirs |-> <<>>]
    /\ srcEOF = [d \in Dirs |-> FALSE]
    /\ rd = [d \in Dirs |-> 0]
    /\ chunk = [d \in Dirs |-> <<>>]
    /\ recv = [d \in Dirs |-> <<>>]
    /\ copyErr = [d \in Dirs |-> "pending"]
    /\ mark = [d \in Dirs |-> -1]
    /\ targetGone = FALSE
    /\ closeWrites = [s \in Sockets |-> 0]
    /\ blocked = {}

\* main.go:96-131: the listener is open, main is about to call Accept
\* mapDialError has not been called
InitPure ==
    /\ mapErr = <<>>
    /\ mapRep = <<>>

InitServer ==
    /\ listener = "open"
    /\ mainPc = "accept"
    /\ acceptErr = <<>>
    /\ signalled = FALSE
    /\ sess = [i \in Sessions |-> FreeSession]
    /\ pool = {}

Init ==
    /\ InitRelayData
    /\ InitServer
    /\ stalled = FALSE
    /\ InitPure
    /\ users \in UserMaps
    /\ pc = "accepted"
    /\ now = 0
    /\ deadline = NoDeadline
    /\ deadlineLog = <<>>
    /\ peerGone = FALSE
    /\ out = <<>>
    /\ negRead = 0
    /\ reqRead = 0
    /\ header = <<>>
    /\ methods = <<>>
    /\ chosenMethod = AUTH_NOACCEPT
    /\ auth = <<>>
    /\ username = <<>>
    /\ passwordLen = 0
    /\ password = <<>>
    /\ negErr = "pending"
    /\ presented = <<>>
    /\ reqHeader = <<>>
    /\ domainLen = 0
    /\ dstAddr = <<>>
    /\ dstPort = 0
    /\ dials = <<>>
    /\ dialErr = <<>>
    /\ targetLocal = <<>>
    /\ reqErr = "pending"
    /\ wg = 0
    /\ task = [d \in Dirs |-> "idle"]
    /\ connCloses = 0
    /\ targetCloses = 0

(***************************************************************************)
(* The client socket: io.ReadFull(conn, buf) and conn.Write(data)          *)
(***************************************************************************)
DeadlinePassed == deadline # NoDeadline /\ now >= deadline

\* io.ReadFull of n bytes returns them after d seconds, unless the client
\* has stopped sending.  A read of no byte returns at once without
\* touching the socket.
ReadFull(n, d) ==
    IF n = 0
    THEN d = 0
    ELSE /\ d \in Delays
         /\ ~peerGone
         /\ ~stalled
         /\ deadline = NoDeadline \/ now + d < deadline

\* io.ReadFull of n bytes fails with e: the client is gone, or it stalls
\* until the deadline of the socket.
ReadError(n, e) ==
    /\ n > 0
    /\ \/ peerGone /\ e = "EOF"
       \/ ~peerGone /\ deadline # NoDeadline /\ e = "i/o timeout"

\* the clock when a read has failed with e
TimeAfterError(e) ==
    IF e = "i/o timeout" /\ now < deadline THEN deadline ELSE now

\* conn.Write succeeds unless the client is gone or the deadline has passed
WriteOK == ~peerGone /\ ~DeadlinePassed

Write(data) == out' = Append(out, [data |-> data, ok |-> WriteOK])

(***************************************************************************)
(* handleConnection, main.go:181-202                                       *)
(***************************************************************************)
\* entry of handleConnection without the handshake deadline
HandleConnection_NoDeadline ==
    /\ pc = "accepted"
    /\ pc' = "neg_header"
    /\ UNCHANGED <<users, ext, now, deadline, deadlineLog, peerGone, out,
                   connCloses, negRead, reqRead, negLocals, negErr, presented,
                   reqLocals, dials, reqErr, relay>>

\* entry of handleConnection: keep-alive and the handshake deadline
HandleConnection ==
    /\ pc = "accepted"
    /\ deadline' = now + HandshakeTimeout
    /\ deadlineLog' = Append(deadlineLog, now + HandshakeTimeout)
    /\ pc' = "neg_header"
    /\ UNCHANGED <<users, ext, now, peerGone, out, connCloses, negRead, reqRead,
                   negLocals, negErr, presented, reqLocals, dials, reqErr,
                   relay>>

(***************************************************************************)
(* negotiateAuth, main.go:205-294                                          *)
(***************************************************************************)
NegReturn(e) == pc' = "neg_returned" /\ negErr' = e

\* the loop with the no-auth branch taken whether or not authentication is
\* required
RECURSIVE ChooseMethod_IgnoresRequireAuth(_, _)
ChooseMethod_IgnoresRequireAuth(ms, requireAuth) ==
    IF ms = <<>> THEN AUTH_NOACCEPT
    ELSE IF requireAuth /\ Head(ms) = AUTH_USERNAME THEN AUTH_USERNAME
    ELSE IF Head(ms) = AUTH_NONE THEN AUTH_NONE
    ELSE ChooseMethod_IgnoresRequireAuth(Tail(ms), requireAuth)

\* the loop of main.go:226-234
RECURSIVE ChooseMethod(_, _)
ChooseMethod(ms, requireAuth) ==
    IF ms = <<>> THEN AUTH_NOACCEPT
    ELSE IF requireAuth /\ Head(ms) = AUTH_USERNAME THEN AUTH_USERNAME
    ELSE IF ~requireAuth /\ Head(ms) = AUTH_NONE THEN AUTH_NONE
    ELSE ChooseMethod(Tail(ms), requireAuth)

RequireAuth == DOMAIN users # {}

\* a greeting of another protocol version answered with "no acceptable
\* method" before the negotiation fails
NegReadHeader_RepliesOnBadVersion ==
    /\ pc = "neg_header"
    /\ \/ \E d \in Delays, v \in VersionBytes, n \in 0..MaxMethods :
            /\ ReadFull(2, d)
            /\ now' = now + d
            /\ header' = <<v, n>>
            /\ negRead' = negRead + 2
            /\ IF v # VERSION
               THEN /\ Write(<<VERSION, AUTH_NOACCEPT>>)
                    /\ NegReturn("invalid protocol version")
               ELSE pc' = "neg_methods" /\ UNCHANGED <<negErr, out>>
       \/ \E e \in {"EOF", "i/o timeout"} :
            /\ ReadError(2, e)
            /\ now' = TimeAfterError(e)
            /\ NegReturn(e)
            /\ UNCHANGED <<header, negRead, out>>
    /\ UNCHANGED <<users, ext, deadline, deadlineLog, peerGone, connCloses,
                   reqRead, methods, chosenMethod, auth, username, passwordLen,
                   password, presented, reqLocals, dials, reqErr, relay>>

\* main.go:207-214
NegReadHeader ==
    /\ pc = "neg_header"
    /\ \/ \E d \in Delays, v \in VersionBytes, n \in 0..MaxMethods :
            /\ ReadFull(2, d)
            /\ now' = now + d
            /\ header' = <<v, n>>
            /\ negRead' = negRead + 2
            /\ IF v # VERSION
               THEN NegReturn("invalid protocol version")
               ELSE pc' = "neg_methods" /\ UNCHANGED negErr
       \/ \E e \in {"EOF", "i/o timeout"} :
            /\ ReadError(2, e)
            /\ now' = TimeAfterError(e)
            /\ NegReturn(e)
            /\ UNCHANGED <<header, negRead>>
    /\ UNCHANGED <<users, ext, deadline, deadlineLog, peerGone, out, connCloses,
                   reqRead, methods, chosenMethod, auth, username, passwordLen,
                   password, presented, reqLocals, dials, reqErr, relay>>

\* main.go:216-234
NegReadMethods ==
    /\ pc = "neg_methods"
    /\ \/ \E d \in Delays, ms \in SeqsOfLen(MethodBytes, header[2]) :
            /\ ReadFull(header[2], d)
            /\ now' = now + d
            /\ methods' = ms
            /\ negRead' = negRead + header[2]
            /\ chosenMethod' = ChooseMethod(ms, RequireAuth)
            /\ pc' = "neg_select"
            /\ UNCHANGED negErr
       \/ \E e \in {"EOF", "i/o timeout"} :
            /\ ReadError(header[2], e)
            /\ now' = TimeAfterError(e)
            /\ NegReturn(e)
            /\ UNCHANGED <<methods, negRead, chosenMethod>>
    /\ UNCHANGED <<users, ext, deadline, deadlineLog, peerGone, out, connCloses,
                   reqRead, header, auth, username, passwordLen, password,
                   presented,
                   reqLocals, dials, reqErr, relay>>

\* main.go:237-247 and 293
NegWriteMethod ==
    /\ pc = "neg_select"
    /\ Write(<<VERSION, chosenMethod>>)
    /\ IF ~WriteOK THEN NegReturn("write error")
       ELSE IF chosenMethod = AUTH_NOACCEPT
            THEN NegReturn("no supported authentication methods")
       ELSE IF chosenMethod = AUTH_USERNAME
            THEN pc' = "neg_auth" /\ UNCHANGED negErr
       ELSE NegReturn("nil")
    /\ UNCHANGED <<users, ext, now, deadline, deadlineLog, peerGone, connCloses,
                   negRead, reqRead, negLocals, presented, reqLocals, dials,
                   reqErr, relay>>

\* main.go:248-255
NegReadAuth ==
    /\ pc = "neg_auth"
    /\ \/ \E d \in Delays, v \in SubnegBytes, n \in 0..MaxCred :
            /\ ReadFull(2, d)
            /\ now' = now + d
            /\ auth' = <<v, n>>
            /\ negRead' = negRead + 2
            /\ IF v # SUBNEG_VERSION
               THEN NegReturn("invalid authentication subprotocol version")
               ELSE pc' = "neg_username" /\ UNCHANGED negErr
       \/ \E e \in {"EOF", "i/o timeout"} :
            /\ ReadError(2, e)
            /\ now' = TimeAfterError(e)
            /\ NegReturn(e)
            /\ UNCHANGED <<auth, negRead>>
    /\ UNCHANGED <<users, ext, deadline, deadlineLog, peerGone, out, connCloses,
                   reqRead, header, methods, chosenMethod, username,
                   passwordLen, password, presented, reqLocals, dials, reqErr, relay>>

\* main.go:258-262
NegReadUsername ==
    /\ pc = "neg_username"
    /\ \/ \E d \in Delays, u \in SeqsOfLen(CredBytes, auth[2]) :
            /\ ReadFull(auth[2], d)
            /\ now' = now + d
            /\ username' = u
            /\ negRead' = negRead + auth[2]
            /\ pc' = "neg_passlen"
            /\ UNCHANGED negErr
       \/ \E e \in {"EOF", "i/o timeout"} :
            /\ ReadError(auth[2], e)
            /\ now' = TimeAfterError(e)
            /\ NegReturn(e)
            /\ UNCHANGED <<username, negRead>>
    /\ UNCHANGED <<users, ext, deadline, deadlineLog, peerGone, out, connCloses,
                   reqRead, header, methods, chosenMethod, auth, passwordLen,
                   password, presented, reqLocals, dials, reqErr, relay>>

\* main.go:265-270
NegReadPassLen ==
    /\ pc = "neg_passlen"
    /\ \/ \E d \in Delays, n \in 0..MaxCred :
            /\ ReadFull(1, d)
            /\ now' = now + d
            /\ passwordLen' = n
            /\ negRead' = negRead + 1
            /\ pc' = "neg_password"
            /\ UNCHANGED negErr
       \/ \E e \in {"EOF", "i/o timeout"} :
            /\ ReadError(1, e)
            /\ now' = TimeAfterError(e)
            /\ NegReturn(e)
            /\ UNCHANGED <<passwordLen, negRead>>
    /\ UNCHANGED <<users, ext, deadline, deadlineLog, peerGone, out, connCloses,
                   reqRead, header, methods, chosenMethod, auth, username,
                   password, presented, reqLocals, dials, reqErr, relay>>

\* main.go:271-278
NegReadPassword ==
    /\ pc = "neg_password"
    /\ \/ \E d \in Delays, p \in SeqsOfLen(CredBytes, passwordLen) :
            /\ ReadFull(passwordLen, d)
            /\ now' = now + d
            /\ password' = p
            /\ presented' = <<username, p>>
            /\ negRead' = negRead + passwordLen
            /\ pc' = "neg_verify"
            /\ UNCHANGED negErr
       \/ \E e \in {"EOF", "i/o timeout"} :
            /\ ReadError(passwordLen, e)
            /\ now' = TimeAfterError(e)
            /\ NegReturn(e)
            /\ UNCHANGED <<password, presented, negRead>>
    /\ UNCHANGED <<users, ext, deadline, deadlineLog, peerGone, out, connCloses,
                   reqRead, header, methods, chosenMethod, auth, username,
                   passwordLen, reqLocals, dials, reqErr, relay>>

\* the check with the comparison of the password left out
CredentialsRejected_UserOnly(u, p) == u \notin DOMAIN users

\* main.go:280-281: !exists || storedPassword != passwordStr
CredentialsRejected(u, p) == u \notin DOMAIN users \/ users[u] # p

\* NegVerify with the failure status of main.go:283 left out
NegVerify_NoFailureStatus ==
    /\ pc = "neg_verify"
    /\ IF CredentialsRejected(username, password)
       THEN /\ UNCHANGED out
            /\ NegReturn("invalid username or password")
       ELSE /\ Write(<<SUBNEG_VERSION, 0>>)
            /\ IF WriteOK THEN NegReturn("nil") ELSE NegReturn("write error")
    /\ UNCHANGED <<users, ext, now, deadline, deadlineLog, peerGone, connCloses,
                   negRead, reqRead, negLocals, presented, reqLocals, dials,
                   reqErr, relay>>

\* main.go:277-293
NegVerify ==
    /\ pc = "neg_verify"
    /\ IF CredentialsRejected(username, password)
       THEN /\ Write(<<SUBNEG_VERSION, 1>>)
            /\ NegReturn("invalid username or password")
       ELSE /\ Write(<<SUBNEG_VERSION, 0>>)
            /\ IF WriteOK THEN NegReturn("nil") ELSE NegReturn("write error")
    /\ UNCHANGED <<users, ext, now, deadline, deadlineLog, peerGone, connCloses,
                   negRead, reqRead, negLocals, presented, reqLocals, dials,
                   reqErr, relay>>

\* AfterNegotiate with the return of main.go:194 left out
AfterNegotiate_IgnoresError ==
    /\ pc = "neg_returned"
    /\ pc' = "req_header"
    /\ header' = <<>>
    /\ methods' = <<>>
    /\ chosenMethod' = AUTH_NOACCEPT
    /\ auth' = <<>>
    /\ username' = <<>>
    /\ passwordLen' = 0
    /\ password' = <<>>
    /\ UNCHANGED <<users, ext, now, deadline, deadlineLog, peerGone, out, negRead,
                   reqRead, negErr, presented, reqLocals, dials, reqErr,
                   relay, connCloses>>

\* main.go:192-195: negotiateAuth has returned; on an error the deferred
\* conn.Close() of main.go:182 runs.  The locals of negotiateAuth are gone.
AfterNegotiate ==
    /\ pc = "neg_returned"
    /\ IF negErr # "nil"
       THEN pc' = "done" /\ connCloses' = connCloses + 1
       ELSE pc' = "req_header" /\ UNCHANGED connCloses
    /\ header' = <<>>
    /\ methods' = <<>>
    /\ chosenMethod' = AUTH_NOACCEPT
    /\ auth' = <<>>
    /\ username' = <<>>
    /\ passwordLen' = 0
    /\ password' = <<>>
    /\ UNCHANGED <<users, ext, now, deadline, deadlineLog, peerGone, out, negRead,
                   reqRead, negErr, presented, reqLocals, dials, reqErr,
                   relay>>

(***************************************************************************)
(* net.IP, encoding/binary                                                 *)
(***************************************************************************)
Nil == <<>>

\* net.IP.To4: the 4-byte form of an IPv4 address, nil for any other
To4(ip) ==
    IF Len(ip) = 4 THEN ip
    ELSE IF Len(ip) = 16 /\ SubSeq(ip, 1, 12) = V4InV6Prefix
         THEN SubSeq(ip, 13, 16)
    ELSE Nil

\* net.IP.To16: the 16-byte form
To16(ip) ==
    IF Len(ip) = 4 THEN V4InV6Prefix \o ip
    ELSE IF Len(ip) = 16 THEN ip
    ELSE Nil

\* net.IPv4(a, b, c, d): the 16-byte form of a.b.c.d
IPv4(b) == V4InV6Prefix \o b

\* net.IP.String: dotted quad for an IPv4 address (also in its 16-byte
\* form), colon-separated 16-bit groups otherwise
IPString(ip) ==
    IF To4(ip) # Nil
    THEN [text |-> "dotted", v |-> To4(ip)]
    ELSE [text |-> "groups",
          v |-> [i \in 1..8 |-> ip[2 * i - 1] * 256 + ip[2 * i]]]

\* string(domain)
DomainString(bytes) == [text |-> "name", v |-> bytes]

\* binary.BigEndian.Uint16 and PutUint16
Uint16(b) == b[1] * 256 + b[2]

PutUint16(p) == <<(p \div 256) % 256, p % 256>>

(***************************************************************************)
(* writeReply, writeBoundSuccess, mapDialError                             *)
(***************************************************************************)
\* main.go:459-478: the bytes of the reply
WriteReply(rep, bindIP, bindPort) ==
    LET v4 == To4(bindIP)
        v6 == To16(bindIP)
        addrType == IF bindIP # Nil /\ v4 = Nil /\ v6 # Nil
                    THEN ATYP_IPV6 ELSE ATYP_IPV4
        addrBytes == IF bindIP = Nil THEN <<0, 0, 0, 0>>
                     ELSE IF v4 # Nil THEN v4
                     ELSE IF v6 # Nil THEN v6
                     ELSE <<0, 0, 0, 0>>
    IN  <<VERSION, rep, 0, addrType>> \o addrBytes \o PutUint16(bindPort)

\* the success reply with the address type left at IPv4
WriteBoundSuccess_AlwaysIPv4(ipBytes, port) ==
    <<VERSION, REP_SUCCESS, 0, ATYP_IPV4>> \o ipBytes \o PutUint16(port)

\* main.go:481-493: the bytes of the success reply
WriteBoundSuccess(ipBytes, port) ==
    LET addrType == IF Len(ipBytes) = 16 THEN ATYP_IPV6 ELSE ATYP_IPV4
    IN  <<VERSION, REP_SUCCESS, 0, addrType>> \o ipBytes \o PutUint16(port)

\* the mapping with a zero byte as its default
MapDialError_DefaultZero(err) ==
    IF err.timeout THEN REP_HOST_UNREACHABLE
    ELSE IF err.refused THEN REP_CONNECTION_REFUSED
    ELSE IF err.dns THEN REP_HOST_UNREACHABLE
    ELSE IF "connection refused" \in err.text THEN REP_CONNECTION_REFUSED
    ELSE IF "network is unreachable" \in err.text THEN REP_NETWORK_UNREACHABLE
    ELSE REP_SUCCESS

\* the mapping with the refusal looked at before the timeout
MapDialError_RefusedFirst(err) ==
    IF err.refused THEN REP_CONNECTION_REFUSED
    ELSE IF err.timeout THEN REP_HOST_UNREACHABLE
    ELSE IF err.dns THEN REP_HOST_UNREACHABLE
    ELSE IF "connection refused" \in err.text THEN REP_CONNECTION_REFUSED
    ELSE IF "network is unreachable" \in err.text THEN REP_NETWORK_UNREACHABLE
    ELSE REP_GENERAL_FAILURE

\* main.go:496-519.  A dial error is [timeout, refused, dns, text]:
\* net.Error with Timeout(), os.SyscallError with ECONNREFUSED,
\* net.DNSError, and the phrases its message contains.
MapDialError(err) ==
    IF err.timeout THEN REP_HOST_UNREACHABLE
    ELSE IF err.refused THEN REP_CONNECTION_REFUSED
    ELSE IF err.dns THEN REP_HOST_UNREACHABLE
    ELSE IF "connection refused" \in err.text THEN REP_CONNECTION_REFUSED
    ELSE IF "network is unreachable" \in err.text THEN REP_NETWORK_UNREACHABLE
    ELSE REP_GENERAL_FAILURE

(***************************************************************************)
(* dialer.Dial("tcp", targetAddr)                                          *)
(***************************************************************************)
DialError(timeout, refused, dns, text, kind) ==
    [timeout |-> timeout, refused |-> refused, dns |-> dns, text |-> text,
     kind |-> kind]

\* the Dialer's own Timeout has elapsed
ErrDialTimeout == DialError(TRUE, FALSE, FALSE, {}, "dial timeout")
\* "host:port" with more than one colon outside brackets
ErrAddr == DialError(FALSE, FALSE, FALSE, {}, "too many colons in address")

\* errors the network answers with before the Dialer's Timeout
NetworkErrors ==
    { DialError(FALSE, TRUE, FALSE, {"connection refused"}, "ECONNREFUSED"),
      DialError(FALSE, FALSE, TRUE, {}, "no such host"),
      DialError(TRUE, FALSE, TRUE, {}, "lookup timeout"),
      DialError(FALSE, FALSE, FALSE, {"network is unreachable"}, "ENETUNREACH"),
      DialError(FALSE, FALSE, FALSE, {}, "EHOSTUNREACH") }

\* local endpoints of the outbound socket: the address family of the
\* socket, its address, the net.IP that LocalAddr() holds, and the port
LocalEndpoints ==
    { [family |-> 4, addr |-> <<192, 168, 0, 7>>, ip |-> <<192, 168, 0, 7>>,
       port |-> 40000],
      [family |-> 4, addr |-> <<127, 0, 0, 1>>,
       ip |-> V4InV6Prefix \o <<127, 0, 0, 1>>, port |-> 255],
      [family |-> 6,
       addr |-> <<32, 1, 13, 184, 0, 0, 0, 0, 0, 0, 0, 0, 0, 0, 0, 7>>,
       ip |-> <<32, 1, 13, 184, 0, 0, 0, 0, 0, 0, 0, 0, 0, 0, 0, 7>>,
       port |-> 65535] }

\* fmt.Sprintf("%s:%d", dstAddr, dstPort), main.go:364
TargetAddr(addr, port) == [host |-> addr, port |-> port]

\* net.SplitHostPort accepts the address: a host written as colon-separated
\* groups is not in brackets and is refused
DialAddrOK(target) == target.host.text # "groups"

(***************************************************************************)
(* handleRequest, main.go:297-428                                          *)
(***************************************************************************)
\* return of handleRequest without the deferred targetConn.Close()
ReqReturn_NoTargetClose(e) ==
    /\ pc' = "req_returned"
    /\ reqErr' = e
    /\ targetCloses' = targetCloses

\* return of handleRequest; the deferred targetConn.Close() of main.go:380
\* runs when the dial had succeeded
ReqReturn(e) ==
    /\ pc' = "req_returned"
    /\ reqErr' = e
    /\ targetCloses' = IF targetLocal # Nil THEN targetCloses + 1
                       ELSE targetCloses

\* the dispatch with the address type looked at before the command
ReqDispatch_AtypFirst(c, t) ==
    IF t = ATYP_IPV4 THEN "req_ipv4"
    ELSE IF t = ATYP_DOMAINNAME THEN "req_domainlen"
    ELSE IF t = ATYP_IPV6 THEN "req_ipv6"
    ELSE IF c # CMD_CONNECT THEN "req_cmd_reply"
    ELSE "req_atyp_reply"

\* the dispatch with every address type but IPv4 and IPv6 read as a domain
ReqDispatch_DefaultDomain(c, t) ==
    IF c # CMD_CONNECT THEN "req_cmd_reply"
    ELSE IF t = ATYP_IPV4 THEN "req_ipv4"
    ELSE IF t = ATYP_IPV6 THEN "req_ipv6"
    ELSE "req_domainlen"

\* main.go:308 and 317-351: where a header with version 5 leads
ReqDispatch(c, t) ==
    IF c # CMD_CONNECT THEN "req_cmd_reply"
    ELSE IF t = ATYP_IPV4 THEN "req_ipv4"
    ELSE IF t = ATYP_DOMAINNAME THEN "req_domainlen"
    ELSE IF t = ATYP_IPV6 THEN "req_ipv6"
    ELSE "req_atyp_reply"

\* main.go:299-317
ReqReadHeader ==
    /\ pc = "req_header"
    /\ \/ \E d \in Delays, v \in VersionBytes, c \in CommandBytes,
             r \in ReservedBytes, t \in AtypBytes :
            /\ ReadFull(4, d)
            /\ now' = now + d
            /\ reqHeader' = <<v, c, r, t>>
            /\ reqRead' = reqRead + 4
            /\ UNCHANGED targetCloses
            /\ IF v # VERSION
               THEN ReqReturn("invalid protocol version")
               ELSE /\ UNCHANGED reqErr
                    /\ pc' = ReqDispatch(c, t)
       \/ \E e \in {"EOF", "i/o timeout"} :
            /\ ReadError(4, e)
            /\ now' = TimeAfterError(e)
            /\ ReqReturn(e)
            /\ UNCHANGED <<reqHeader, reqRead>>
    /\ UNCHANGED <<users, ext, deadline, deadlineLog, peerGone, out, connCloses,
                   negRead, negLocals, negErr, presented, domainLen, dstAddr,
                   dstPort, dialErr, targetLocal, dials, wg, task>>

\* main.go:308-311
ReqReplyCmd ==
    /\ pc = "req_cmd_reply"
    /\ Write(WriteReply(REP_CMD_NOT_SUPPORTED, Nil, 0))
    /\ ReqReturn("only CONNECT command is supported")
    /\ UNCHANGED <<users, ext, now, deadline, deadlineLog, peerGone, connCloses,
                   negRead, reqRead, negLocals, negErr, presented, reqLocals,
                   dials, wg, task>>

\* main.go:348-351
ReqReplyAtyp ==
    /\ pc = "req_atyp_reply"
    /\ Write(WriteReply(REP_ATYP_NOT_SUPPORTED, Nil, 0))
    /\ ReqReturn("unsupported address type")
    /\ UNCHANGED <<users, ext, now, deadline, deadlineLog, peerGone, connCloses,
                   negRead, reqRead, negLocals, negErr, presented, reqLocals,
                   dials, wg, task>>

\* main.go:318-324
ReqReadIPv4 ==
    /\ pc = "req_ipv4"
    /\ \/ \E d \in Delays, ipv4 \in IPv4Addrs :
            /\ ReadFull(4, d)
            /\ now' = now + d
            /\ dstAddr' = IPString(IPv4(ipv4))
            /\ reqRead' = reqRead + 4
            /\ pc' = "req_port"
            /\ UNCHANGED <<reqErr, targetCloses>>
       \/ \E e \in {"EOF", "i/o timeout"} :
            /\ ReadError(4, e)
            /\ now' = TimeAfterError(e)
            /\ ReqReturn(e)
            /\ UNCHANGED <<dstAddr, reqRead>>
    /\ UNCHANGED <<users, ext, deadline, deadlineLog, peerGone, out, connCloses,
                   negRead, negLocals, negErr, presented, reqHeader, domainLen,
                   dstPort, dialErr, targetLocal, dials, wg, task>>

\* main.go:326-332
ReqReadDomainLen ==
    /\ pc = "req_domainlen"
    /\ \/ \E d \in Delays, n \in 0..MaxDomain :
            /\ ReadFull(1, d)
            /\ now' = now + d
            /\ domainLen' = n
            /\ reqRead' = reqRead + 1
            /\ pc' = "req_domain"
            /\ UNCHANGED <<reqErr, targetCloses>>
       \/ \E e \in {"EOF", "i/o timeout"} :
            /\ ReadError(1, e)
            /\ now' = TimeAfterError(e)
            /\ ReqReturn(e)
            /\ UNCHANGED <<domainLen, reqRead>>
    /\ UNCHANGED <<users, ext, deadline, deadlineLog, peerGone, out, connCloses,
                   negRead, negLocals, negErr, presented, reqHeader, dstAddr,
                   dstPort, dialErr, targetLocal, dials, wg, task>>

\* main.go:334-338
ReqReadDomain ==
    /\ pc = "req_domain"
    /\ \/ \E d \in Delays, domain \in SeqsOfLen(DomainBytes, domainLen) :
            /\ ReadFull(domainLen, d)
            /\ now' = now + d
            /\ dstAddr' = DomainString(domain)
            /\ reqRead' = reqRead + domainLen
            /\ pc' = "req_port"
            /\ UNCHANGED <<reqErr, targetCloses>>
       \/ \E e \in {"EOF", "i/o timeout"} :
            /\ ReadError(domainLen, e)
            /\ now' = TimeAfterError(e)
            /\ ReqReturn(e)
            /\ UNCHANGED <<dstAddr, reqRead>>
    /\ UNCHANGED <<users, ext, deadline, deadlineLog, peerGone, out, connCloses,
                   negRead, negLocals, negErr, presented, reqHeader, domainLen,
                   dstPort, dialErr, targetLocal, dials, wg, task>>

\* main.go:340-346
ReqReadIPv6 ==
    /\ pc = "req_ipv6"
    /\ \/ \E d \in Delays, ipv6 \in IPv6Addrs :
            /\ ReadFull(16, d)
            /\ now' = now + d
            /\ dstAddr' = IPString(ipv6)
            /\ reqRead' = reqRead + 16
            /\ pc' = "req_port"
            /\ UNCHANGED <<reqErr, targetCloses>>
       \/ \E e \in {"EOF", "i/o timeout"} :
            /\ ReadError(16, e)
            /\ now' = TimeAfterError(e)
            /\ ReqReturn(e)
            /\ UNCHANGED <<dstAddr, reqRead>>
    /\ UNCHANGED <<users, ext, deadline, deadlineLog, peerGone, out, connCloses,
                   negRead, negLocals, negErr, presented, reqHeader, domainLen,
                   dstPort, dialErr, targetLocal, dials, wg, task>>

\* main.go:354-358
ReqReadPort ==
    /\ pc = "req_port"
    /\ \/ \E d \in Delays, portBuff \in PortBytes :
            /\ ReadFull(2, d)
            /\ now' = now + d
            /\ dstPort' = Uint16(portBuff)
            /\ reqRead' = reqRead + 2
            /\ pc' = "req_dial"
            /\ UNCHANGED <<reqErr, targetCloses>>
       \/ \E e \in {"EOF", "i/o timeout"} :
            /\ ReadError(2, e)
            /\ now' = TimeAfterError(e)
            /\ ReqReturn(e)
            /\ UNCHANGED <<dstPort, reqRead>>
    /\ UNCHANGED <<users, ext, deadline, deadlineLog, peerGone, out, connCloses,
                   negRead, negLocals, negErr, presented, reqHeader, domainLen,
                   dstAddr, dialErr, targetLocal, dials, wg, task>>

\* main.go:364-375: the dial succeeds within the Dialer's Timeout, is
\* answered with an error within it, or runs into it
ReqDial ==
    /\ pc = "req_dial"
    /\ dials' = Append(dials, TargetAddr(dstAddr, dstPort))
    /\ \/ \E d \in Delays, l \in LocalEndpoints :
            /\ DialAddrOK(TargetAddr(dstAddr, dstPort))
            /\ d < DialTimeout
            /\ dstAddr.text = "dotted" => l.family = 4
            /\ now' = now + d
            /\ targetLocal' = l
            /\ pc' = "req_success_reply"
            /\ UNCHANGED dialErr
       \/ \E d \in Delays, e \in NetworkErrors :
            /\ DialAddrOK(TargetAddr(dstAddr, dstPort))
            /\ d < DialTimeout
            /\ e.dns => dstAddr.text = "name"
            /\ now' = now + d
            /\ dialErr' = e
            /\ pc' = "req_dial_reply"
            /\ UNCHANGED targetLocal
       \/ /\ DialAddrOK(TargetAddr(dstAddr, dstPort))
          /\ now' = now + DialTimeout
          /\ dialErr' = ErrDialTimeout
          /\ pc' = "req_dial_reply"
          /\ UNCHANGED targetLocal
       \/ /\ ~DialAddrOK(TargetAddr(dstAddr, dstPort))
          /\ now' = now
          /\ dialErr' = ErrAddr
          /\ pc' = "req_dial_reply"
          /\ UNCHANGED targetLocal
    /\ UNCHANGED <<users, ext, deadline, deadlineLog, peerGone, out, connCloses,
                   negRead, reqRead, negLocals, negErr, presented, reqHeader,
                   domainLen, dstAddr, dstPort, reqErr, relay>>

\* ReqReplyDialError with the writeReply of main.go:377 left out
ReqReplyDialError_NoReply ==
    /\ pc = "req_dial_reply"
    /\ ReqReturn(dialErr.kind)
    /\ UNCHANGED <<users, ext, now, deadline, deadlineLog, peerGone, connCloses,
                   negRead, reqRead, negLocals, negErr, presented, reqLocals,
                   dials, wg, task, out>>

\* main.go:375-379
ReqReplyDialError ==
    /\ pc = "req_dial_reply"
    /\ Write(WriteReply(MapDialError(dialErr), Nil, 0))
    /\ ReqReturn(dialErr.kind)
    /\ UNCHANGED <<users, ext, now, deadline, deadlineLog, peerGone, connCloses,
                   negRead, reqRead, negLocals, negErr, presented, reqLocals,
                   dials, wg, task>>

\* the relay goroutines started without the success reply being written
ReqReplySuccess_RelayBeforeReply ==
    /\ pc = "req_success_reply"
    /\ deadline' = NoDeadline
    /\ deadlineLog' = Append(deadlineLog, NoDeadline)
    /\ wg' = 2
    /\ task' = [d \in Dirs |-> "copy"]
    /\ pc' = "relay_wait"
    /\ UNCHANGED <<users, ext, now, peerGone, out, connCloses, negRead,
                   reqRead, negLocals, negErr, presented, reqLocals, dials,
                   reqErr, targetCloses>>

\* the relay goroutines started with the handshake deadline left in place
ReqReplySuccess_KeepsDeadline ==
    /\ pc = "req_success_reply"
    /\ LET ip4 == To4(targetLocal.ip)
           ipBytes == IF ip4 = Nil THEN To16(targetLocal.ip) ELSE ip4
       IN  Write(WriteBoundSuccess(ipBytes, targetLocal.port % 65536))
    /\ IF WriteOK
       THEN /\ wg' = 2
            /\ task' = [d \in Dirs |-> "copy"]
            /\ pc' = "relay_wait"
            /\ UNCHANGED <<reqErr, targetCloses>>
       ELSE /\ ReqReturn("write error")
            /\ UNCHANGED <<wg, task>>
    /\ UNCHANGED <<users, ext, now, deadline, deadlineLog, peerGone,
                   connCloses, negRead, reqRead, negLocals, negErr, presented,
                   reqLocals, dials>>

\* main.go:383-403: the success reply, then the deadline is cleared and the
\* two relay goroutines are started
ReqReplySuccess ==
    /\ pc = "req_success_reply"
    /\ LET ip4 == To4(targetLocal.ip)
           ipBytes == IF ip4 = Nil THEN To16(targetLocal.ip) ELSE ip4
       IN  Write(WriteBoundSuccess(ipBytes, targetLocal.port % 65536))
    /\ IF WriteOK
       THEN /\ deadline' = NoDeadline
            /\ deadlineLog' = Append(deadlineLog, NoDeadline)
            /\ wg' = 2
            /\ task' = [d \in Dirs |-> "copy"]
            /\ pc' = "relay_wait"
            /\ UNCHANGED <<reqErr, targetCloses>>
       ELSE /\ ReqReturn("write error")
            /\ UNCHANGED <<deadline, deadlineLog, wg, task>>
    /\ UNCHANGED <<users, ext, now, peerGone, connCloses, negRead, reqRead,
                   negLocals, negErr, presented, reqLocals, dials>>

\* main.go:405-424: the socket a direction reads and the one it writes
Src(dir) == IF dir = "c2t" THEN "client" ELSE "target"
Dst(dir) == IF dir = "c2t" THEN "target" ELSE "client"
Other(dir) == IF dir = "c2t" THEN "t2c" ELSE "c2t"

\* main.go:405-409 and 416-420: io.CopyBuffer of one direction returns, at
\* the end of its source or on an I/O error, and the buffer goes back
RelayCopy(dir) ==
    /\ task[dir] = "copy"
    /\ task' = [task EXCEPT ![dir] = "copied"]
    /\ UNCHANGED <<users, ext, pc, conn, negRead, reqRead, negLocals, negErr,
                   presented, reqLocals, dials, reqErr, wg, targetCloses>>

\* CloseWrite called on the socket the direction reads
RelayCloseWrite_OnSource(dir) ==
    /\ task[dir] = "copied"
    /\ closeWrites' = [closeWrites EXCEPT ![Src(dir)] = @ + 1]
    /\ task' = [task EXCEPT ![dir] = "done"]
    /\ wg' = wg - 1
    /\ UNCHANGED <<users, pure, blocked, stalled, relayData, server, pc, conn, negRead,
                   reqRead, negLocals, negErr, presented, reqLocals, dials,
                   reqErr, targetCloses>>

\* Close called on the destination instead of CloseWrite
RelayCloseWrite_FullClose(dir) ==
    /\ task[dir] = "copied"
    /\ IF Dst(dir) = "target"
       THEN targetCloses' = targetCloses + 1 /\ UNCHANGED connCloses
       ELSE connCloses' = connCloses + 1 /\ UNCHANGED targetCloses
    /\ task' = [task EXCEPT ![dir] = "done"]
    /\ wg' = wg - 1
    /\ UNCHANGED <<users, ext, pc, now, deadline, deadlineLog, peerGone, out,
                   negRead, reqRead, negLocals, negErr, presented, reqLocals,
                   dials, reqErr>>

\* main.go:410-413 and 421-424: CloseWrite on the destination, then the
\* deferred wg.Done()
RelayCloseWrite(dir) ==
    /\ task[dir] = "copied"
    /\ closeWrites' = [closeWrites EXCEPT ![Dst(dir)] = @ + 1]
    /\ task' = [task EXCEPT ![dir] = "done"]
    /\ wg' = wg - 1
    /\ UNCHANGED <<users, pure, blocked, stalled, relayData, server, pc, conn, negRead, reqRead, negLocals, negErr,
                   presented, reqLocals, dials, reqErr, targetCloses>>

\* wg.Wait() returning once one of the two goroutines is done
ReqWait_AfterFirstDone ==
    /\ pc = "relay_wait"
    /\ wg < 2
    /\ ReqReturn("nil")
    /\ UNCHANGED <<users, ext, conn, negRead, reqRead, negLocals, negErr,
                   presented, reqLocals, dials, wg, task>>

\* main.go:426-427: wg.Wait() returns, handleRequest returns nil
ReqWait ==
    /\ pc = "relay_wait"
    /\ wg = 0
    /\ ReqReturn("nil")
    /\ UNCHANGED <<users, ext, conn, negRead, reqRead, negLocals, negErr,
                   presented, reqLocals, dials, wg, task>>

\* main.go:198-202: handleRequest has returned; the deferred conn.Close()
\* of main.go:182 runs
AfterRequest ==
    /\ pc = "req_returned"
    /\ pc' = "done"
    /\ connCloses' = connCloses + 1
    /\ UNCHANGED <<users, ext, now, deadline, deadlineLog, peerGone, out, negRead,
                   reqRead, negLocals, negErr, presented, reqLocals, dials,
                   reqErr, relay>>

\* the client closes or resets its connection
ClientGone ==
    /\ ~peerGone
    /\ pc \notin {"accepted", "done"}
    /\ peerGone' = TRUE
    /\ UNCHANGED <<users, ext, pc, now, deadline, deadlineLog, out, connCloses,
                   negRead, reqRead, negLocals, negErr, presented, reqLocals,
                   dials, reqErr, relay>>

(***************************************************************************)
(* The relay in detail, main.go:400-427.  io.CopyBuffer is a loop of       *)
(* src.Read and dst.Write; each of the two calls is one action.  What the  *)
(* two peers send, when they end their stream and when they reset the      *)
(* connection are inputs.                                                  *)
(***************************************************************************)
\* how many bytes each peer sends while the session relays
MaxData == 2

\* the n-th byte a source sends: no byte occurs twice in a session
Payload(dir, n) == (IF dir = "c2t" THEN 100 ELSE 200) + n

\* the peer of a socket has reset the connection
Gone(sock) == IF sock = "client" THEN peerGone ELSE targetGone

\* Close() has been called on a socket
Closed(sock) == IF sock = "client" THEN connCloses > 0 ELSE targetCloses > 0

\* a Read or a Write on the socket fails
SocketDead(sock) == Gone(sock) \/ Closed(sock)

\* main.go:190 and 394: the deadline is set on the client socket only; a
\* Read or a Write on it fails with a timeout once the deadline has passed
TimedOut(sock) == sock = "client" /\ DeadlinePassed

\* handleRequest has written the success reply of a CONNECT without
\* authentication to 10.0.0.2:80 and has started the two goroutines
RelayInit ==
    /\ InitServer
    /\ InitRelayData
    /\ stalled = FALSE
    /\ InitPure
    /\ users = <<>>
    /\ pc = "relay_wait"
    /\ now = 0
    /\ deadline = NoDeadline
    /\ deadlineLog = <<HandshakeTimeout, NoDeadline>>
    /\ peerGone = FALSE
    /\ targetLocal \in {e \in LocalEndpoints : e.ip = <<192, 168, 0, 7>>}
    /\ out = << [data |-> <<VERSION, AUTH_NONE>>, ok |-> TRUE],
                [data |-> WriteBoundSuccess(To4(targetLocal.ip),
                                            targetLocal.port % 65536),
                 ok |-> TRUE] >>
    /\ negRead = 3
    /\ reqRead = 10
    /\ header = <<>>
    /\ methods = <<>>
    /\ chosenMethod = AUTH_NOACCEPT
    /\ auth = <<>>
    /\ username = <<>>
    /\ passwordLen = 0
    /\ password = <<>>
    /\ negErr = "nil"
    /\ presented = <<>>
    /\ reqHeader = <<VERSION, CMD_CONNECT, 0, ATYP_IPV4>>
    /\ domainLen = 0
    /\ dstAddr = IPString(<<10, 0, 0, 2>>)
    /\ dstPort = 80
    /\ dials = <<TargetAddr(dstAddr, dstPort)>>
    /\ dialErr = Nil
    /\ reqErr = "pending"
    /\ wg = 2
    /\ task = [d \in Dirs |-> "copy"]
    /\ connCloses = 0
    /\ targetCloses = 0

\* a read that hands out the stream from its start again
CopyRead_Rereads(dir) ==
    /\ task[dir] = "copy"
    /\ \/ /\ ~SocketDead(Src(dir))
          /\ rd[dir] < Len(sent[dir])
          /\ \E k \in 1 .. (Len(sent[dir]) - rd[dir]) :
                /\ chunk' = [chunk EXCEPT
                                ![dir] = SubSeq(sent[dir], 1, rd[dir] + k)]
                /\ rd' = [rd EXCEPT ![dir] = @ + k]
          /\ task' = [task EXCEPT ![dir] = "write"]
          /\ UNCHANGED copyErr
       \/ /\ ~SocketDead(Src(dir))
          /\ rd[dir] = Len(sent[dir])
          /\ srcEOF[dir]
          /\ copyErr' = [copyErr EXCEPT ![dir] = "nil"]
          /\ task' = [task EXCEPT ![dir] = "copied"]
          /\ UNCHANGED <<chunk, rd>>
       \/ /\ SocketDead(Src(dir))
          /\ copyErr' = [copyErr EXCEPT ![dir] = "read error"]
          /\ task' = [task EXCEPT ![dir] = "copied"]
          /\ UNCHANGED <<chunk, rd>>
    /\ UNCHANGED <<users, pure, blocked, stalled, server, closeWrites, sent, srcEOF, recv,
                   mark, targetGone, pc, conn, negRead, reqRead, negLocals,
                   negErr, presented, reqLocals, dials, reqErr, wg,
                   targetCloses>>

\* src.Read(buf) inside io.CopyBuffer, main.go:408 and 419: some of the
\* bytes that have arrived, or the end of the stream (CopyBuffer returns
\* nil), or an error (CopyBuffer returns it).  With nothing to read on a
\* live socket the call blocks.  On return the buffer goes back.
CopyRead(dir) ==
    /\ task[dir] = "copy"
    /\ \/ /\ ~SocketDead(Src(dir))
          /\ ~TimedOut(Src(dir))
          /\ rd[dir] < Len(sent[dir])
          /\ \E k \in 1 .. (Len(sent[dir]) - rd[dir]) :
                /\ chunk' = [chunk EXCEPT
                                ![dir] = SubSeq(sent[dir], rd[dir] + 1,
                                                rd[dir] + k)]
                /\ rd' = [rd EXCEPT ![dir] = @ + k]
          /\ task' = [task EXCEPT ![dir] = "write"]
          /\ UNCHANGED copyErr
       \/ /\ ~SocketDead(Src(dir))
          /\ ~TimedOut(Src(dir))
          /\ rd[dir] = Len(sent[dir])
          /\ srcEOF[dir]
          /\ copyErr' = [copyErr EXCEPT ![dir] = "nil"]
          /\ task' = [task EXCEPT ![dir] = "copied"]
          /\ UNCHANGED <<chunk, rd>>
       \/ /\ SocketDead(Src(dir))
          /\ copyErr' = [copyErr EXCEPT ![dir] = "read error"]
          /\ task' = [task EXCEPT ![dir] = "copied"]
          /\ UNCHANGED <<chunk, rd>>
       \/ /\ ~SocketDead(Src(dir))
          /\ TimedOut(Src(dir))
          /\ copyErr' = [copyErr EXCEPT ![dir] = "i/o timeout"]
          /\ task' = [task EXCEPT ![dir] = "copied"]
          /\ UNCHANGED <<chunk, rd>>
    /\ UNCHANGED <<users, pure, blocked, stalled, server, closeWrites, sent, srcEOF, recv,
                   mark, targetGone, pc, conn, negRead, reqRead, negLocals,
                   negErr, presented, reqLocals, dials, reqErr, wg,
                   targetCloses>>

\* a failed write that also closes both sockets of the session
CopyWrite_ErrorClosesSockets(dir) ==
    /\ task[dir] = "write"
    /\ IF SocketDead(Dst(dir))
       THEN /\ copyErr' = [copyErr EXCEPT ![dir] = "write error"]
            /\ task' = [task EXCEPT ![dir] = "copied"]
            /\ connCloses' = connCloses + 1
            /\ targetCloses' = targetCloses + 1
            /\ UNCHANGED recv
       ELSE /\ recv' = [recv EXCEPT ![dir] = @ \o chunk[dir]]
            /\ task' = [task EXCEPT ![dir] = "copy"]
            /\ UNCHANGED <<copyErr, connCloses, targetCloses>>
    /\ chunk' = [chunk EXCEPT ![dir] = <<>>]
    /\ UNCHANGED <<users, pure, blocked, stalled, server, closeWrites, sent, srcEOF, rd,
                   mark, targetGone, pc, now, deadline, deadlineLog, peerGone,
                   out, negRead, reqRead, negLocals, negErr, presented,
                   reqLocals, dials, reqErr, wg>>

\* dst.Write(buf[:n]) inside io.CopyBuffer: the bytes reach the destination
\* in order, or the write fails and CopyBuffer returns the error.  While
\* the peer of a live destination takes no more bytes the call blocks.
CopyWrite(dir) ==
    /\ task[dir] = "write"
    /\ IF SocketDead(Dst(dir))
       THEN /\ copyErr' = [copyErr EXCEPT ![dir] = "write error"]
            /\ task' = [task EXCEPT ![dir] = "copied"]
            /\ UNCHANGED recv
       ELSE IF TimedOut(Dst(dir))
       THEN /\ copyErr' = [copyErr EXCEPT ![dir] = "i/o timeout"]
            /\ task' = [task EXCEPT ![dir] = "copied"]
            /\ UNCHANGED recv
       ELSE /\ Dst(dir) \notin blocked
            /\ recv' = [recv EXCEPT ![dir] = @ \o chunk[dir]]
            /\ task' = [task EXCEPT ![dir] = "copy"]
            /\ UNCHANGED copyErr
    /\ chunk' = [chunk EXCEPT ![dir] = <<>>]
    /\ UNCHANGED <<users, pure, blocked, stalled, server, closeWrites, sent, srcEOF, rd,
                   mark, targetGone, pc, conn, negRead, reqRead, negLocals,
                   negErr, presented, reqLocals, dials, reqErr, wg,
                   targetCloses>>

\* the peer at the source of a direction sends one more byte
SourceSend(dir) ==
    /\ pc = "relay_wait"
    /\ ~srcEOF[dir]
    /\ ~Gone(Src(dir))
    /\ Len(sent[dir]) < MaxData
    /\ sent' = [sent EXCEPT ![dir] = Append(@, Payload(dir, Len(@) + 1))]
    /\ UNCHANGED <<users, pure, blocked, stalled, server, closeWrites, srcEOF, rd, chunk,
                   recv, copyErr, mark, targetGone, pc, conn, negRead,
                   reqRead, negLocals, negErr, presented, reqLocals, dials,
                   reqErr, relay>>

\* the peer at the source of a direction closes its write side
SourceClose(dir) ==
    /\ pc = "relay_wait"
    /\ ~srcEOF[dir]
    /\ ~Gone(Src(dir))
    /\ srcEOF' = [srcEOF EXCEPT ![dir] = TRUE]
    /\ mark' = [mark EXCEPT ![dir] = Len(sent[Other(dir)])]
    /\ UNCHANGED <<users, pure, blocked, stalled, server, closeWrites, sent, rd, chunk,
                   recv, copyErr, targetGone, pc, conn, negRead, reqRead,
                   negLocals, negErr, presented, reqLocals, dials, reqErr,
                   relay>>

\* the target resets its connection
TargetGone ==
    /\ pc = "relay_wait"
    /\ ~targetGone
    /\ targetGone' = TRUE
    /\ UNCHANGED <<users, pure, blocked, stalled, server, closeWrites, sent, srcEOF, rd,
                   chunk, recv, copyErr, mark, pc, conn, negRead, reqRead,
                   negLocals, negErr, presented, reqLocals, dials, reqErr,
                   relay>>

\* the steps of one relay goroutine
TaskStep(dir) == CopyRead(dir) \/ CopyWrite(dir) \/ RelayCloseWrite(dir)

\* the steps of the handling goroutine once the relay has started
JoinStep == ReqWait \/ AfterRequest

RelayNext ==
    \/ \E dir \in Dirs : CopyRead(dir)
    \/ \E dir \in Dirs : CopyWrite(dir)
    \/ \E dir \in Dirs : RelayCloseWrite(dir)
    \/ ReqWait
    \/ AfterRequest
    \/ \E dir \in Dirs : SourceSend(dir)
    \/ \E dir \in Dirs : SourceClose(dir)
    \/ ClientGone
    \/ TargetGone

\* the Go scheduler runs every goroutine that can take a step
RelaySpec ==
    /\ RelayInit
    /\ [][RelayNext]_vars
    /\ \A dir \in Dirs : WF_vars(TaskStep(dir))
    /\ WF_vars(JoinStep)

(***************************************************************************)
(* The relay with peers that may stop reading what is relayed to them.     *)
(***************************************************************************)
\* the peer of a socket stops reading: its receive window closes and a
\* Write on the socket blocks, main.go:408 and 419
StopsReading(sock) ==
    /\ pc = "relay_wait"
    /\ sock \notin blocked
    /\ ~Gone(sock)
    /\ blocked' = blocked \cup {sock}
    /\ UNCHANGED <<users, pure, stalled, server, closeWrites, relayData, pc,
                   conn, negRead, reqRead, negLocals, negErr, presented,
                   reqLocals, dials, reqErr, relay>>

BlockNext ==
    \/ RelayNext
    \/ \E sock \in Sockets : StopsReading(sock)

\* the Go scheduler runs every goroutine that can take a step
BlockSpec ==
    /\ RelayInit
    /\ [][BlockNext]_vars
    /\ \A dir \in Dirs : WF_vars(TaskStep(dir))
    /\ WF_vars(JoinStep)

(***************************************************************************)
(* The relay with time passing: from the success reply onwards, with the   *)
(* handshake deadline still set on the client socket.                      *)
(***************************************************************************)
\* how many handshake timeouts the relay is watched for
MaxIdle == 2

\* handleRequest has dialled 10.0.0.2:80 for a client without
\* authentication and is about to write the success reply, main.go:383
IdleInit ==
    /\ InitServer
    /\ InitRelayData
    /\ stalled = FALSE
    /\ InitPure
    /\ users = <<>>
    /\ pc = "req_success_reply"
    /\ now = 0
    /\ deadline = HandshakeTimeout
    /\ deadlineLog = <<HandshakeTimeout>>
    /\ peerGone = FALSE
    /\ targetLocal \in {e \in LocalEndpoints : e.ip = <<192, 168, 0, 7>>}
    /\ out = << [data |-> <<VERSION, AUTH_NONE>>, ok |-> TRUE] >>
    /\ negRead = 3
    /\ reqRead = 10
    /\ header = <<>>
    /\ methods = <<>>
    /\ chosenMethod = AUTH_NOACCEPT
    /\ auth = <<>>
    /\ username = <<>>
    /\ passwordLen = 0
    /\ password = <<>>
    /\ negErr = "nil"
    /\ presented = <<>>
    /\ reqHeader = <<VERSION, CMD_CONNECT, 0, ATYP_IPV4>>
    /\ domainLen = 0
    /\ dstAddr = IPString(<<10, 0, 0, 2>>)
    /\ dstPort = 80
    /\ dials = <<TargetAddr(dstAddr, dstPort)>>
    /\ dialErr = Nil
    /\ reqErr = "pending"
    /\ wg = 0
    /\ task = [d \in Dirs |-> "idle"]
    /\ connCloses = 0
    /\ targetCloses = 0

\* a handshake timeout of wall-clock time passes while handleRequest writes
\* the reply or the relay goroutines sit in io.CopyBuffer
Tick ==
    /\ pc \in {"req_success_reply", "relay_wait"}
    /\ now < MaxIdle * HandshakeTimeout
    /\ now' = now + HandshakeTimeout
    /\ UNCHANGED <<users, ext, pc, deadline, deadlineLog, peerGone, out,
                   connCloses, negRead, reqRead, negLocals, negErr, presented,
                   reqLocals, dials, reqErr, relay>>

IdleNext ==
    \/ ReqReplySuccess
    \/ RelayNext
    \/ Tick

IdleSpec == IdleInit /\ [][IdleNext]_vars

(***************************************************************************)
(* The server, main.go:102-145 and 521-525: the accept loop, the signal    *)
(* goroutine, the handling goroutines it has started and the buffer pool   *)
(* they share.  A handling goroutine is followed through its outcome       *)
(* only: the handshake fails, or the relay starts, runs and ends.          *)
(***************************************************************************)
\* an error of listener.Accept(): whether errors.Is(err, net.ErrClosed),
\* whether errors.As(err, &ne) finds a net.Error, and what ne.Timeout() says
AcceptError(text, closed, netError, timeout) ==
    [text |-> text, closed |-> closed, netError |-> netError,
     timeout |-> timeout]

\* Accept on a closed listener: *net.OpError wrapping net.ErrClosed
ErrClosed ==
    AcceptError("use of closed network connection", TRUE, TRUE, FALSE)

\* what Accept returns on an open listener when accept(2) fails: a
\* *net.OpError wrapping the errno.  The listener has no deadline, so none
\* of them is a timeout.
OpenAcceptErrors ==
    { AcceptError("too many open files", FALSE, TRUE, FALSE) }

\* main.go:137: the condition under which the accept loop breaks
BreaksLoop(err) == err.closed \/ (err.netError /\ ~err.timeout)

\* the buffers of the model; New makes the first one not in use
BufIds == 1 .. (2 * MaxSessions)

Held == {sess[i].bufs[d] : i \in Sessions, d \in Dirs} \ {0}

NewBuf == CHOOSE b \in BufIds : b \notin (Held \cup pool) /\
              \A c \in BufIds : c \notin (Held \cup pool) => b <= c

\* the goroutine of a session is running
Live(i) == sess[i].st \in {"handshake", "relay"}

ServerInit ==
    /\ InitServer
    /\ InitRelayData
    /\ stalled = FALSE
    /\ InitPure
    /\ users = [u \in {<<97>>} |-> <<119>>]
    /\ pc = "accepted"
    /\ now = 0
    /\ deadline = NoDeadline
    /\ deadlineLog = <<>>
    /\ peerGone = FALSE
    /\ out = <<>>
    /\ negRead = 0
    /\ reqRead = 0
    /\ header = <<>>
    /\ methods = <<>>
    /\ chosenMethod = AUTH_NOACCEPT
    /\ auth = <<>>
    /\ username = <<>>
    /\ passwordLen = 0
    /\ password = <<>>
    /\ negErr = "pending"
    /\ presented = <<>>
    /\ reqHeader = <<>>
    /\ domainLen = 0
    /\ dstAddr = <<>>
    /\ dstPort = 0
    /\ dials = <<>>
    /\ dialErr = <<>>
    /\ targetLocal = <<>>
    /\ reqErr = "pending"
    /\ wg = 0
    /\ task = [d \in Dirs |-> "idle"]
    /\ connCloses = 0
    /\ targetCloses = 0

\* what a server step leaves alone: the one session followed in detail
session == <<users, pure, blocked, pc, conn, negRead, reqRead, negLocals, negErr, presented,
             reqLocals, dials, reqErr, relay, stalled, relayData,
             closeWrites>>

\* main.go:132-143: one turn of the accept loop
Accept ==
    /\ mainPc = "accept"
    /\ \/ /\ listener = "open"
          /\ \E i \in Sessions :
                /\ sess[i].st = "free"
                /\ \A j \in Sessions : j < i => sess[j].st # "free"
                /\ sess' = [sess EXCEPT ![i].st = "handshake"]
          /\ acceptErr' = Nil
          /\ UNCHANGED mainPc
       \/ /\ listener = "open"
          /\ \E err \in OpenAcceptErrors :
                /\ acceptErr' = err
                /\ mainPc' = IF BreaksLoop(err) THEN "return" ELSE "accept"
          /\ UNCHANGED sess
       \/ /\ listener = "closed"
          /\ acceptErr' = ErrClosed
          /\ mainPc' = IF BreaksLoop(ErrClosed) THEN "return" ELSE "accept"
          /\ UNCHANGED sess
    /\ UNCHANGED <<session, listener, signalled, pool>>

\* main.go:145 and 107: main returns after the loop; the deferred
\* listener.Close() runs and the process exits with every goroutine
\* that is still running
MainReturn ==
    /\ mainPc = "return"
    /\ mainPc' = "exited"
    /\ listener' = "closed"
    /\ sess' = [i \in Sessions |->
                  IF Live(i) THEN [sess[i] EXCEPT !.st = "killed"]
                  ELSE sess[i]]
    /\ UNCHANGED <<session, acceptErr, signalled, pool>>

\* main.go:112-116: SIGINT or SIGTERM arrives, the signal goroutine closes
\* the listener
Shutdown ==
    /\ mainPc # "exited"
    /\ ~signalled
    /\ signalled' = TRUE
    /\ listener' = "closed"
    /\ UNCHANGED <<session, mainPc, acceptErr, sess, pool>>

\* main.go:192-201: negotiateAuth or handleRequest returns an error before
\* the relay; it is logged, the goroutine returns and conn is closed
SessFail_Fatal(i) ==
    /\ mainPc # "exited"
    /\ sess[i].st = "handshake"
    /\ sess' = [j \in Sessions |->
                  IF j = i THEN [sess[j] EXCEPT !.st = "ended", !.closes = 1]
                  ELSE IF Live(j) THEN [sess[j] EXCEPT !.st = "killed"]
                  ELSE sess[j]]
    /\ mainPc' = "exited"
    /\ listener' = "closed"
    /\ UNCHANGED <<session, acceptErr, signalled, pool>>

SessFail(i) ==
    /\ mainPc # "exited"
    /\ sess[i].st = "handshake"
    /\ sess' = [sess EXCEPT ![i].st = "ended", ![i].closes = 1]
    /\ UNCHANGED <<session, listener, mainPc, acceptErr, signalled, pool>>

\* main.go:383-403: the handshake succeeds and the two goroutines start
SessRelay(i) ==
    /\ mainPc # "exited"
    /\ sess[i].st = "handshake"
    /\ sess' = [sess EXCEPT ![i].st = "relay",
                             ![i].tasks = [d \in Dirs |-> "start"]]
    /\ UNCHANGED <<session, listener, mainPc, acceptErr, signalled, pool>>

\* a Get that leaves the buffer it hands out in the pool
SessGetBuf_LeavesInPool(i, d) ==
    /\ mainPc # "exited"
    /\ sess[i].st = "relay"
    /\ sess[i].tasks[d] = "start"
    /\ \E b \in pool \cup {NewBuf} :
          /\ sess' = [sess EXCEPT ![i].tasks[d] = "copy", ![i].bufs[d] = b]
          /\ pool' = pool
    /\ UNCHANGED <<session, listener, mainPc, acceptErr, signalled>>

\* main.go:407, 418 and 524: getBuf takes a buffer out of the pool, or a
\* new one when the pool hands out none
SessGetBuf(i, d) ==
    /\ mainPc # "exited"
    /\ sess[i].st = "relay"
    /\ sess[i].tasks[d] = "start"
    /\ \E b \in pool \cup {NewBuf} :
          /\ sess' = [sess EXCEPT ![i].tasks[d] = "copy", ![i].bufs[d] = b]
          /\ pool' = pool \ {b}
    /\ UNCHANGED <<session, listener, mainPc, acceptErr, signalled>>

\* main.go:408-413, 419-424 and 525: io.CopyBuffer returns, at the end of
\* its source or with an error, putBuf puts the buffer back, the
\* destination is half-closed and the deferred wg.Done() runs
SessPutBuf(i, d) ==
    /\ mainPc # "exited"
    /\ sess[i].st = "relay"
    /\ sess[i].tasks[d] = "copy"
    /\ sess' = [sess EXCEPT ![i].tasks[d] = "done", ![i].bufs[d] = 0]
    /\ pool' = pool \cup {sess[i].bufs[d]}
    /\ UNCHANGED <<session, listener, mainPc, acceptErr, signalled>>

\* main.go:426-427, 380 and 182: wg.Wait() returns, handleRequest returns
\* nil, both sockets are closed
SessEnd(i) ==
    /\ mainPc # "exited"
    /\ sess[i].st = "relay"
    /\ \A d \in Dirs : sess[i].tasks[d] = "done"
    /\ sess' = [sess EXCEPT ![i].st = "ended", ![i].closes = 1]
    /\ UNCHANGED <<session, listener, mainPc, acceptErr, signalled, pool>>

\* the steps of the goroutines of session i
SessStep(i) ==
    \/ SessFail(i)
    \/ SessRelay(i)
    \/ \E d \in Dirs : SessGetBuf(i, d)
    \/ \E d \in Dirs : SessPutBuf(i, d)
    \/ SessEnd(i)

ServerNext ==
    \/ Accept
    \/ MainReturn
    \/ Shutdown
    \/ \E i \in Sessions : SessFail(i)
    \/ \E i \in Sessions : SessRelay(i)
    \/ \E i \in Sessions, d \in Dirs : SessGetBuf(i, d)
    \/ \E i \in Sessions, d \in Dirs : SessPutBuf(i, d)
    \/ \E i \in Sessions : SessEnd(i)

ServerSpec == ServerInit /\ [][ServerNext]_vars

(***************************************************************************)
(* mapDialError on its own, main.go:496-519: applied once to any error     *)
(***************************************************************************)
\* phrases the message of an error may contain; mapDialError looks for the
\* first two
Phrases ==
    {"connection refused", "network is unreachable", "no such host",
     "i/o timeout"}

\* every non-nil error as mapDialError sees it: what the three type tests
\* answer and which phrases err.Error() contains
DialErrors ==
    { DialError(t, r, d, x, "any") :
        t \in BOOLEAN, r \in BOOLEAN, d \in BOOLEAN, x \in SUBSET Phrases }

\* no connection has been accepted
IdleSession ==
    /\ users = <<>>
    /\ pc = "accepted"
    /\ now = 0
    /\ deadline = NoDeadline
    /\ deadlineLog = <<>>
    /\ peerGone = FALSE
    /\ out = <<>>
    /\ negRead = 0
    /\ reqRead = 0
    /\ header = <<>>
    /\ methods = <<>>
    /\ chosenMethod = AUTH_NOACCEPT
    /\ auth = <<>>
    /\ username = <<>>
    /\ passwordLen = 0
    /\ password = <<>>
    /\ negErr = "pending"
    /\ presented = <<>>
    /\ reqHeader = <<>>
    /\ domainLen = 0
    /\ dstAddr = <<>>
    /\ dstPort = 0
    /\ dials = <<>>
    /\ dialErr = <<>>
    /\ targetLocal = <<>>
    /\ reqErr = "pending"
    /\ wg = 0
    /\ task = [d \in Dirs |-> "idle"]
    /\ connCloses = 0
    /\ targetCloses = 0

MapInit ==
    /\ InitServer
    /\ InitRelayData
    /\ stalled = FALSE
    /\ IdleSession
    /\ mapErr \in DialErrors
    /\ mapRep = Nil

\* the call mapDialError(err)
CallMapDialError ==
    /\ mapRep = Nil
    /\ mapRep' = <<MapDialError(mapErr)>>
    /\ UNCHANGED <<users, pc, conn, negRead, reqRead, negLocals, negErr,
                   presented, reqLocals, dials, reqErr, relay, stalled,
                   relayData, closeWrites, server, mapErr, blocked>>

MapNext == CallMapDialError

MapSpec == MapInit /\ [][MapNext]_vars

Next ==
    \/ HandleConnection
    \/ NegReadHeader
    \/ NegReadMethods
    \/ NegWriteMethod
    \/ NegReadAuth
    \/ NegReadUsername
    \/ NegReadPassLen
    \/ NegReadPassword
    \/ NegVerify
    \/ AfterNegotiate
    \/ ReqReadHeader
    \/ ReqReplyCmd
    \/ ReqReplyAtyp
    \/ ReqReadIPv4
    \/ ReqReadDomainLen
    \/ ReqReadDomain
    \/ ReqReadIPv6
    \/ ReqReadPort
    \/ ReqDial
    \/ ReqReplyDialError
    \/ ReqReplySuccess
    \/ \E dir \in Dirs : RelayCopy(dir)
    \/ \E dir \in Dirs : RelayCloseWrite(dir)
    \/ ReqWait
    \/ AfterRequest
    \/ ClientGone

Spec == Init /\ [][Next]_vars

(***************************************************************************)
(* What the client socket was handed                                       *)
(***************************************************************************)
Range(s) == {s[i] : i \in DOMAIN s}

\* the writes that are method-selection replies, sub-negotiation status
\* replies and request replies
MethodReplies ==
    {i \in DOMAIN out : Len(out[i].data) = 2 /\ out[i].data[1] = VERSION}

StatusReplies ==
    {i \in DOMAIN out :
        Len(out[i].data) = 2 /\ out[i].data[1] = SUBNEG_VERSION}

RequestReplies == {i \in DOMAIN out : Len(out[i].data) > 2}

\* negotiateAuth has read a whole greeting with version 5
GreetingRead ==
    header # <<>> /\ header[1] = VERSION /\ Len(methods) = header[2]

\* negotiateAuth has read a whole sub-negotiation message with version 1
SubnegRead == presented # <<>>

\* the presented credentials are a pair of the credential mapping
PresentedMatch ==
    /\ presented # <<>>
    /\ presented[1] \in DOMAIN users
    /\ users[presented[1]] = presented[2]

\* negotiateAuth has returned an error
NegotiationFailed == negErr \notin {"pending", "nil"}

(***************************************************************************)
(* A client that stalls during the handshake, main.go:189-201              *)
(***************************************************************************)
\* the positions at which the handler reads from the client
ReadPcs ==
    {"neg_header", "neg_methods", "neg_auth", "neg_username", "neg_passlen",
     "neg_password", "req_header", "req_ipv4", "req_domainlen", "req_domain",
     "req_ipv6", "req_port"}

\* how many bytes the read at the handler's position asks for
PendingRead ==
    CASE pc = "neg_methods" -> header[2]
      [] pc = "neg_username" -> auth[2]
      [] pc = "neg_password" -> passwordLen
      [] pc = "req_domain" -> domainLen
      [] pc \in {"neg_passlen", "req_domainlen"} -> 1
      [] pc \in {"req_header", "req_ipv4"} -> 4
      [] pc = "req_ipv6" -> 16
      [] OTHER -> 2

\* the client keeps its connection and sends nothing more, while the
\* handler waits for bytes of it
ClientStalls ==
    /\ pc \in ReadPcs
    /\ PendingRead > 0
    /\ ~stalled
    /\ ~peerGone
    /\ stalled' = TRUE
    /\ UNCHANGED <<users, pure, blocked, relayData, closeWrites, server, pc, conn, negRead,
                   reqRead, negLocals, negErr, presented, reqLocals, dials,
                   reqErr, relay>>

\* the steps of the handling goroutine up to the relay, and its return
HandlerStep ==
    \/ HandleConnection
    \/ NegReadHeader
    \/ NegReadMethods
    \/ NegWriteMethod
    \/ NegReadAuth
    \/ NegReadUsername
    \/ NegReadPassLen
    \/ NegReadPassword
    \/ NegVerify
    \/ AfterNegotiate
    \/ ReqReadHeader
    \/ ReqReplyCmd
    \/ ReqReplyAtyp
    \/ ReqReadIPv4
    \/ ReqReadDomainLen
    \/ ReqReadDomain
    \/ ReqReadIPv6
    \/ ReqReadPort
    \/ ReqDial
    \/ ReqReplyDialError
    \/ ReqReplySuccess
    \/ ReqWait
    \/ AfterRequest

StallNext == Next \/ ClientStalls

\* the Go scheduler runs the handling goroutine whenever it can take a step
StallSpec == Init /\ [][StallNext]_vars /\ WF_vars(HandlerStep)

(***************************************************************************)
(* C1                                                                      *)
(***************************************************************************)
\* C1, as stated: whenever negotiateAuth has returned, with success or with
\* a failure, it has written exactly one method-selection reply and, if it
\* selected username/password, exactly one sub-negotiation status reply.
C1_AlwaysOneReply ==
    pc = "neg_returned" =>
        /\ Cardinality(MethodReplies) = 1
        /\ chosenMethod = AUTH_USERNAME => Cardinality(StatusReplies) = 1

\* C1, amended: negotiateAuth never writes more than one method-selection
\* reply nor more than one status reply.  When it returns it has written a
\* method-selection reply exactly if it had read a whole greeting with
\* version 5, and a status reply exactly if it had read a whole
\* sub-negotiation message with version 1; when it returns success both
\* writes that its method calls for were made and succeeded.
C1_RepliesMatchWhatWasRead ==
    /\ Cardinality(MethodReplies) <= 1
    /\ Cardinality(StatusReplies) <= 1
    /\ pc = "neg_returned" =>
        /\ Cardinality(MethodReplies) = (IF GreetingRead THEN 1 ELSE 0)
        /\ Cardinality(StatusReplies) = (IF SubnegRead THEN 1 ELSE 0)
        /\ negErr = "nil" =>
            /\ MethodReplies = {1} /\ out[1].ok
            /\ chosenMethod = AUTH_USERNAME =>
                  StatusReplies = {2} /\ out[2].ok

\* negotiateAuth has returned a failure after both replies
C1_Witness ==
    /\ pc = "neg_returned"
    /\ chosenMethod = AUTH_USERNAME
    /\ negErr = "invalid username or password"
    /\ Cardinality(MethodReplies) = 1
    /\ Cardinality(StatusReplies) = 1

(***************************************************************************)
(* C2                                                                      *)
(***************************************************************************)
\* the method the selection policy names for the offered methods
ExpectedMethod ==
    IF RequireAuth
    THEN (IF AUTH_USERNAME \in Range(methods)
          THEN AUTH_USERNAME ELSE AUTH_NOACCEPT)
    ELSE (IF AUTH_NONE \in Range(methods) THEN AUTH_NONE ELSE AUTH_NOACCEPT)

\* C2: after a greeting with version 5 and any list of methods the
\* method-selection reply is 05 02 / 05 00 / 05 FF as the policy names it
\* (02 only with a non-empty mapping, 00 only with an empty one); once
\* 05 00 has gone out to the client negotiateAuth has returned
\* authenticated, having read nothing beyond the greeting and written
\* nothing else.
C2_MethodSelection ==
    ( /\ GreetingRead
      /\ pc \in {"neg_auth", "neg_username", "neg_passlen", "neg_password",
                 "neg_verify", "neg_returned"}
      /\ out # <<>> ) =>
        /\ out[1].data = <<VERSION, ExpectedMethod>>
        /\ (ExpectedMethod = AUTH_NONE /\ out[1].ok) =>
              /\ pc = "neg_returned"
              /\ negErr = "nil"
              /\ Len(out) = 1
              /\ negRead = 2 + Len(methods)

\* no-auth offered after another method, empty mapping: authenticated
C2_Witness ==
    /\ pc = "neg_returned"
    /\ ~RequireAuth
    /\ methods = <<1, 0>>
    /\ out = <<[data |-> <<5, 0>>, ok |-> TRUE]>>
    /\ negErr = "nil"

(***************************************************************************)
(* C3                                                                      *)
(***************************************************************************)
\* C3: once a whole sub-negotiation message with version 1 was read,
\* negotiateAuth writes 01 00 exactly if the presented pair is a pair of
\* the mapping, and 01 01 with a failure in every other case (unknown
\* username, other password, empty username or password); it returns
\* authenticated only for a pair of the mapping, and does so whenever the
\* 01 00 went out to the client.
C3_CredentialCheck ==
    (pc = "neg_returned" /\ SubnegRead) =>
        /\ Len(out) = 2
        /\ PresentedMatch =>
              /\ out[2].data = <<1, 0>>
              /\ out[2].ok => negErr = "nil"
        /\ ~PresentedMatch =>
              /\ out[2].data = <<1, 1>>
              /\ negErr = "invalid username or password"
        /\ negErr = "nil" => PresentedMatch
        /\ (presented[1] = <<>> \/ presented[2] = <<>>) => negErr # "nil"

\* a known username with another password is refused with 01 01
C3_Witness ==
    /\ pc = "neg_returned"
    /\ SubnegRead
    /\ Len(out) = 2
    /\ presented[1] \in DOMAIN users
    /\ users[presented[1]] # presented[2]
    /\ out[2].data = <<1, 1>>
    /\ negErr = "invalid username or password"

(***************************************************************************)
(* C4                                                                      *)
(***************************************************************************)
C4_State ==
    /\ NegotiationFailed =>
          /\ pc \in {"neg_returned", "done"}
          /\ reqRead = 0
          /\ reqHeader = <<>>
          /\ dials = <<>>
          /\ RequestReplies = {}
          /\ pc = "done" => connCloses = 1
    /\ dials # <<>> =>
          /\ negErr = "nil"
          /\ RequireAuth => PresentedMatch

C4_Step ==
    NegotiationFailed =>
        /\ negRead' = negRead
        /\ reqRead' = reqRead
        /\ out' = out
        /\ dials' = dials
        /\ pc' # pc => pc' = "done" /\ connCloses' = 1

\* C4: once negotiateAuth has returned a failure the handler reads nothing
\* more from the client, writes nothing more, parses no request, dials
\* nothing and closes the client socket; a dial is made only after
\* negotiateAuth returned authenticated and, with a non-empty mapping, only
\* after a pair of the mapping was presented.
C4_FailedNegotiationEndsSession == [](C4_State) /\ [][C4_Step]_vars

\* the session of a client with a wrong password has ended
C4_Witness ==
    /\ pc = "done"
    /\ negErr = "invalid username or password"
    /\ connCloses = 1
    /\ dials = <<>>

(***************************************************************************)
(* C5                                                                      *)
(***************************************************************************)
SupportedAtyps == {ATYP_IPV4, ATYP_DOMAINNAME, ATYP_IPV6}

\* a header with version 5 has been read
HeaderRead == reqHeader # <<>> /\ reqHeader[1] = VERSION

\* bytes of the address field of the request
AddrFieldLen ==
    IF reqHeader[4] = ATYP_IPV4 THEN 4
    ELSE IF reqHeader[4] = ATYP_DOMAINNAME THEN 1 + domainLen
    ELSE 16

\* handleRequest has read a whole connect request of a supported type
RequestRead ==
    /\ HeaderRead
    /\ reqHeader[2] = CMD_CONNECT
    /\ reqHeader[4] \in SupportedAtyps
    /\ reqRead = 4 + AddrFieldLen + 2

\* the request reply, once there is one
TheReply == out[CHOOSE i \in RequestReplies : TRUE]

RelayStarted == wg # 0 \/ \E d \in Dirs : task[d] # "idle"

\* C5, as stated: every call of handleRequest has made exactly one dial and
\* written exactly one reply when it returns.
C5_ExactlyOneDialAndReply ==
    pc = "req_returned" =>
        Len(dials) = 1 /\ Cardinality(RequestReplies) = 1

\* C5, amended: a call of handleRequest reads at most one request, makes at
\* most one dial and at most one reply write.  When it returns it has
\* dialled exactly if it had read a whole connect request with version 5
\* and address type 1, 3 or 4, and it has made its one reply write exactly
\* if it had read a header with version 5 and then found the command or the
\* address type unsupported or dialled; a header of another version or a
\* failed read ends the call with no dial and no reply.
C5_AtMostOneDialAndReply ==
    /\ Len(dials) <= 1
    /\ Cardinality(RequestReplies) <= 1
    /\ pc = "req_returned" =>
        /\ reqHeader # <<>> => reqRead <= 4 + AddrFieldLen + 2
        /\ Len(dials) = (IF RequestRead THEN 1 ELSE 0)
        /\ Cardinality(RequestReplies) =
              (IF HeaderRead /\ ( \/ reqHeader[2] # CMD_CONNECT
                                  \/ reqHeader[4] \notin SupportedAtyps
                                  \/ RequestRead )
               THEN 1 ELSE 0)

\* handleRequest has returned after a request, a dial, a reply and the relay
C5_Witness ==
    /\ pc = "req_returned"
    /\ reqErr = "nil"
    /\ Len(dials) = 1
    /\ Cardinality(RequestReplies) = 1

(***************************************************************************)
(* C6                                                                      *)
(***************************************************************************)
\* C6: after a header with version 5 and a command other than connect,
\* whatever its reserved and address-type bytes: one reply, with code 07
\* (it reaches a client that is still connected), nothing read beyond the four bytes of the header, no dial, no relay, and
\* the handler goes on to nothing but its end.
C6_UnsupportedCommand ==
    (HeaderRead /\ reqHeader[2] # CMD_CONNECT) =>
        /\ pc \in {"req_cmd_reply", "req_returned", "done"}
        /\ reqRead = 4
        /\ dials = <<>>
        /\ targetLocal = Nil
        /\ ~RelayStarted
        /\ pc = "req_cmd_reply" => RequestReplies = {}
        /\ pc # "req_cmd_reply" =>
              /\ Cardinality(RequestReplies) = 1
              /\ TheReply.data = <<5, 7, 0, 1, 0, 0, 0, 0, 0, 0>>
              /\ TheReply.ok \/ peerGone
              /\ reqErr = "only CONNECT command is supported"
        /\ pc = "done" => connCloses = 1

\* a bind request naming an IPv4 address was answered with 07
C6_Witness ==
    /\ pc = "done"
    /\ reqHeader = <<5, 2, 9, 1>>
    /\ TheReply.data[2] = REP_CMD_NOT_SUPPORTED
    /\ reqRead = 4

(***************************************************************************)
(* C7                                                                      *)
(***************************************************************************)
\* C7: after a connect header with version 5 and an address type other
\* than 1, 3 and 4: one reply, with code 08 (it reaches a client that is
\* still connected), no address or port byte read,
\* no dial, no relay, and the handler goes on to nothing but its end.
C7_UnsupportedAddressType ==
    ( /\ HeaderRead
      /\ reqHeader[2] = CMD_CONNECT
      /\ reqHeader[4] \notin SupportedAtyps ) =>
        /\ pc \in {"req_atyp_reply", "req_returned", "done"}
        /\ reqRead = 4
        /\ dstAddr = <<>>
        /\ dials = <<>>
        /\ targetLocal = Nil
        /\ ~RelayStarted
        /\ pc = "req_atyp_reply" => RequestReplies = {}
        /\ pc # "req_atyp_reply" =>
              /\ Cardinality(RequestReplies) = 1
              /\ TheReply.data = <<5, 8, 0, 1, 0, 0, 0, 0, 0, 0>>
              /\ TheReply.ok \/ peerGone
              /\ reqErr = "unsupported address type"
        /\ pc = "done" => connCloses = 1

\* a connect request with address type 7F was answered with 08
C7_Witness ==
    /\ pc = "done"
    /\ HeaderRead
    /\ reqHeader[2] = CMD_CONNECT
    /\ reqHeader[4] = 127
    /\ TheReply.data[2] = REP_ATYP_NOT_SUPPORTED
    /\ reqRead = 4

(***************************************************************************)
(* C8                                                                      *)
(***************************************************************************)
\* C8: after a failed dial handleRequest makes one reply write (one call of
\* conn.Write; whether it reaches the client is C9), of the code
\* mapDialError gives for the error (one of 01, 03, 04, 05, never 00) with
\* address type 1, address 0.0.0.0 and port 0, starts no relay task and
\* returns a failure, after which the handler closes the client socket.
C8_DialFailureReply ==
    dialErr # Nil =>
        /\ pc \in {"req_dial_reply", "req_returned", "done"}
        /\ Len(dials) = 1
        /\ targetLocal = Nil
        /\ ~RelayStarted
        /\ pc = "req_dial_reply" => RequestReplies = {}
        /\ pc # "req_dial_reply" =>
              /\ Cardinality(RequestReplies) = 1
              /\ TheReply.data =
                    <<5, MapDialError(dialErr), 0, 1, 0, 0, 0, 0, 0, 0>>
              /\ TheReply.data[2] \in {1, 3, 4, 5}
              /\ reqErr \notin {"pending", "nil"}
        /\ pc = "done" => connCloses = 1

\* a dial answered with "no route to host" was reported as general failure
C8_Witness ==
    /\ pc = "done"
    /\ dialErr # Nil
    /\ dialErr.kind = "EHOSTUNREACH"
    /\ TheReply.data = <<5, 1, 0, 1, 0, 0, 0, 0, 0, 0>>
    /\ connCloses = 1

(***************************************************************************)
(* C9                                                                      *)
(***************************************************************************)
\* C9, for the dial that times out (a refused dial is answered with 05 in
\* the same way): the client, still connected, is sent a reply with code
\* 04, written on the client socket while it carries the one deadline set
\* at the start of the handler, which is as long as the Dialer's Timeout.
C9_TimedOutDialIsAnswered ==
    ( /\ pc \in {"req_returned", "done"}
      /\ dialErr # Nil
      /\ dialErr.timeout
      /\ ~peerGone ) =>
        /\ deadlineLog = <<HandshakeTimeout>>
        /\ deadline = HandshakeTimeout
        /\ DialTimeout = HandshakeTimeout
        /\ Cardinality(RequestReplies) = 1
        /\ TheReply.data[2] = REP_HOST_UNREACHABLE
        /\ TheReply.ok

\* what the code does when the Dialer's Timeout ends the dial: the reply
\* write is made after the deadline of the client socket and fails
C9_TimeoutReplyIsLost ==
    (pc \in {"req_returned", "done"} /\ dialErr = ErrDialTimeout) =>
        /\ now >= deadline
        /\ TheReply.data[2] = REP_HOST_UNREACHABLE
        /\ ~TheReply.ok

(***************************************************************************)
(* C10                                                                     *)
(***************************************************************************)
\* C10: after a successful dial the reply has code 00 and carries the local
\* address and port of the outbound socket, as address type 1 with 4 bytes
\* for an IPv4 socket and as address type 4 with 16 bytes for an IPv6
\* socket; the relay tasks exist only after that reply was written with
\* success.
C10_BoundSuccessReply ==
    /\ targetLocal # Nil =>
          /\ pc \notin {"req_dial_reply"}
          /\ pc = "req_success_reply" => RequestReplies = {} /\ ~RelayStarted
          /\ pc # "req_success_reply" =>
                /\ Cardinality(RequestReplies) = 1
                /\ TheReply.data =
                      <<5, 0, 0, IF targetLocal.family = 4 THEN 1 ELSE 4>>
                      \o targetLocal.addr
                      \o <<targetLocal.port \div 256, targetLocal.port % 256>>
                /\ Len(TheReply.data) =
                      (IF targetLocal.family = 4 THEN 10 ELSE 22)
                /\ ~TheReply.ok => ~RelayStarted /\ pc \in {"req_returned", "done"}
    /\ RelayStarted =>
          /\ targetLocal # Nil
          /\ Cardinality(RequestReplies) = 1
          /\ TheReply.ok
          /\ TheReply.data[2] = REP_SUCCESS

\* the relay runs behind an IPv6 outbound socket
C10_Witness ==
    /\ pc = "relay_wait"
    /\ targetLocal # Nil
    /\ targetLocal.family = 6
    /\ task["c2t"] = "copy"
    /\ TheReply.data[4] = ATYP_IPV6
    /\ Len(TheReply.data) = 22

(***************************************************************************)
(* C11                                                                     *)
(***************************************************************************)
\* the relay goroutines that have not yet called wg.Done()
Running == {d \in Dirs : task[d] # "done"}

\* C11: once the relay has started there are exactly two relay tasks, one
\* per direction, counted by the wait group; the session does not return
\* from the relay and closes neither the client nor the target socket until
\* both tasks are done, whichever finished first and however they ended.
C11_RelayJoinsBothTasks ==
    RelayStarted =>
        /\ DOMAIN task = {"c2t", "t2c"}
        /\ wg = Cardinality(Running)
        /\ (pc # "relay_wait" \/ connCloses > 0 \/ targetCloses > 0)
               => Running = {}

\* one direction is done after an I/O error, the other is still copying,
\* and the session waits with both sockets open
C11_Witness ==
    /\ pc = "relay_wait"
    /\ task["t2c"] = "done"
    /\ copyErr["t2c"] = "read error"
    /\ task["c2t"] = "copy"
    /\ copyErr["c2t"] = "pending"
    /\ connCloses = 0
    /\ targetCloses = 0

(***************************************************************************)
(* C12                                                                     *)
(***************************************************************************)
\* C12: on every way out of the handling goroutine the client socket is
\* closed exactly once, and the target socket exactly once if the dial had
\* succeeded and never otherwise; before the goroutine ends the client
\* socket is not closed, and no socket is ever closed twice.
C12_SocketsClosedExactlyOnce ==
    /\ connCloses <= 1
    /\ targetCloses <= 1
    /\ targetCloses = 1 => targetLocal # Nil
    /\ pc # "done" => connCloses = 0
    /\ pc \in {"req_returned", "done"} =>
           targetCloses = (IF targetLocal # Nil THEN 1 ELSE 0)
    /\ pc = "done" => connCloses = 1

\* the dial succeeded, the success reply could not be written, and the
\* goroutine has ended
C12_Witness ==
    /\ pc = "done"
    /\ targetLocal # Nil
    /\ reqErr = "write error"
    /\ connCloses = 1
    /\ targetCloses = 1

(***************************************************************************)
(* C13                                                                     *)
(***************************************************************************)
\* a direction can take its next read: it is in its copy loop, bytes have
\* arrived and the peer has not reset the connection
CanRead(d) ==
    /\ task[d] = "copy"
    /\ rd[d] < Len(sent[d])
    /\ ~Gone(Src(d))

C13_State ==
    \A d \in Dirs :
        /\ closeWrites[Dst(d)] = (IF task[d] = "done" THEN 1 ELSE 0)
        /\ Running # {} => connCloses = 0 /\ targetCloses = 0
        /\ CanRead(d) => ENABLED CopyRead(d)
        /\ task[d] = "write" => ENABLED CopyWrite(d)

C13_Step ==
    \A d \in Dirs :
        task[d] # task'[d] /\ task'[d] \in {"copied", "done"} =>
            /\ closeWrites'[Src(d)] = closeWrites[Src(d)]
            /\ connCloses' = connCloses
            /\ targetCloses' = targetCloses
            /\ task'[Other(d)] = task[Other(d)]
            /\ copyErr'[Other(d)] = copyErr[Other(d)]
            /\ rd'[Other(d)] = rd[Other(d)]
            /\ chunk'[Other(d)] = chunk[Other(d)]
            /\ recv'[Other(d)] = recv[Other(d)]

\* C13: a direction whose copy has ended shuts down the write side of its
\* own destination socket, once, and of no other socket: c2t half-closes
\* the target, t2c half-closes the client.  Ending a direction closes
\* neither socket and leaves the other direction's copy loop as it was,
\* still able to read what arrives and to write what it has read.
C13_HalfCloseOnly == [](C13_State) /\ [][C13_Step]_vars

\* the client's stream has ended, c2t has half-closed the target, and t2c
\* holds bytes it read from the target with both sockets still open
C13_Witness ==
    /\ task["c2t"] = "done"
    /\ copyErr["c2t"] = "nil"
    /\ closeWrites = [s \in Sockets |-> IF s = "target" THEN 1 ELSE 0]
    /\ task["t2c"] = "write"
    /\ chunk["t2c"] # <<>>
    /\ connCloses = 0
    /\ targetCloses = 0

(***************************************************************************)
(* C14                                                                     *)
(***************************************************************************)
C14_State ==
    /\ (connCloses > 0 \/ targetCloses > 0) => task["t2c"] = "done"
    /\ srcEOF["c2t"] /\ CanRead("t2c") => ENABLED CopyRead("t2c")
    /\ copyErr["t2c"] = "nil" => recv["t2c"] = sent["t2c"]

\* C14: after the client has ended its stream, what the target sends up to
\* the end of its own stream is still delivered to the client, unless one
\* of the two peers resets its connection, and the session closes neither
\* socket before the target-to-client direction is done.
C14_HalfClosedClientStillServed ==
    /\ [](C14_State)
    /\ (srcEOF["c2t"] /\ srcEOF["t2c"])
          ~> (recv["t2c"] = sent["t2c"] \/ peerGone \/ targetGone)

\* c2t is done after the client's end of stream, and the client has been
\* delivered bytes the target sent after that, up to the target's own end
C14_Witness ==
    /\ mark["c2t"] >= 0
    /\ task["c2t"] = "done"
    /\ copyErr["c2t"] = "nil"
    /\ copyErr["t2c"] = "nil"
    /\ Len(recv["t2c"]) > mark["c2t"]
    /\ recv["t2c"] = sent["t2c"]

(***************************************************************************)
(* C15                                                                     *)
(***************************************************************************)
Failed(d) == copyErr[d] \in {"read error", "write error"}

C15_State ==
    \A d \in Dirs :
        /\ copyErr[d] # "pending" <=> task[d] \in {"copied", "done"}
        /\ copyErr[d] = "nil" => srcEOF[d] /\ rd[d] = Len(sent[d])
        /\ copyErr[d] = "read error" => SocketDead(Src(d))
        /\ copyErr[d] = "write error" => SocketDead(Dst(d))
        /\ Failed(Other(d)) /\ CanRead(d) => ENABLED CopyRead(d)
        /\ Failed(Other(d)) /\ task[d] = "write" => ENABLED CopyWrite(d)

C15_Step ==
    \A d \in Dirs :
        /\ copyErr[d] # "pending" =>
               /\ copyErr'[d] = copyErr[d]
               /\ rd'[d] = rd[d]
               /\ chunk'[d] = chunk[d]
               /\ recv'[d] = recv[d]
        /\ ~Failed(d) /\ Failed(d)' =>
               /\ task'[d] = "copied"
               /\ task'[Other(d)] = task[Other(d)]
               /\ copyErr'[Other(d)] = copyErr[Other(d)]
               /\ rd'[Other(d)] = rd[Other(d)]
               /\ chunk'[Other(d)] = chunk[Other(d)]
               /\ recv'[Other(d)] = recv[Other(d)]
               /\ connCloses' = connCloses
               /\ targetCloses' = targetCloses
               /\ closeWrites' = closeWrites

\* C15: an I/O error in one direction ends the copy loop of that direction
\* only.  The failed call is not made again: the direction reads and
\* writes nothing more.  The error closes no socket and leaves the other
\* direction untouched; that one goes on reading and writing and ends only
\* at the end of its own source or when an I/O call of its own fails.
C15_ErrorEndsOneDirection == [](C15_State) /\ [][C15_Step]_vars

\* the write to the target has failed while t2c holds bytes for the
\* client, whose connection is alive
C15_Witness ==
    /\ copyErr["c2t"] = "write error"
    /\ copyErr["t2c"] = "pending"
    /\ task["t2c"] = "write"
    /\ ~peerGone

(***************************************************************************)
(* C16                                                                     *)
(***************************************************************************)
IsPrefix(a, b) == Len(a) <= Len(b) /\ a = SubSeq(b, 1, Len(a))

C16_State ==
    \A d \in Dirs :
        /\ IsPrefix(recv[d], sent[d])
        /\ IsPrefix(recv[d] \o chunk[d], sent[d])
        /\ copyErr[d] = "nil" => recv[d] = sent[d]

\* C16: in each direction the bytes delivered to the destination are a
\* prefix of the bytes the source has sent since the success reply:
\* nothing is dropped in the middle, doubled, reordered, altered or taken
\* from the other direction.  A direction that ends at the end of its
\* source has delivered every byte, and unless a peer resets its
\* connection every byte sent before the end of a stream is delivered.
C16_RelayIsFaithful ==
    /\ [](C16_State)
    /\ \A d \in Dirs :
          srcEOF[d] ~> (recv[d] = sent[d] \/ peerGone \/ targetGone)

\* both peers have sent two bytes and ended, and each has been delivered
\* the two bytes of the other
C16_Witness ==
    \A d \in Dirs :
        /\ Len(sent[d]) = 2
        /\ copyErr[d] = "nil"
        /\ recv[d] = sent[d]

(***************************************************************************)
(* C17                                                                     *)
(***************************************************************************)
\* main has left the accept loop
LoopEnded == mainPc \in {"return", "exited"}

\* C17: an accept error that does not come from the closed listener is
\* logged and the loop goes on; the accept loop ends only on the error of
\* the closed listener.
C17_OnlyClosedListenerEndsLoop ==
    /\ LoopEnded => acceptErr = ErrClosed
    /\ acceptErr \in OpenAcceptErrors => mainPc = "accept"

\* what the code does instead: every error Accept can return on the open
\* listener ends the loop as well
C17_AcceptErrorEndsLoop ==
    /\ acceptErr # Nil => LoopEnded
    /\ \A err \in OpenAcceptErrors \cup {ErrClosed} : BreaksLoop(err)

(***************************************************************************)
(* C18                                                                     *)
(***************************************************************************)
\* C18: after the shutdown signal has closed the listener no connection is
\* accepted any more, and no session that was in flight is cut off: each
\* ends through its own handshake failure or the end of its own relay.
C18_InFlightSessionsSurvive ==
    signalled =>
        /\ listener = "closed"
        /\ \A i \in Sessions : sess[i].st # "killed"

\* the half of C18 the code keeps: a closed listener hands out no
\* connection
C18_NoAcceptAfterClose ==
    [][listener = "closed" =>
          \A i \in Sessions : sess[i].st = "free" => sess'[i].st = "free"]_vars

(***************************************************************************)
(* C19                                                                     *)
(***************************************************************************)
\* what a step of session i leaves alone: main and its accept loop, the
\* listener, the configuration and every other session
C19_Untouched(i) ==
    /\ mainPc' = mainPc
    /\ listener' = listener
    /\ acceptErr' = acceptErr
    /\ signalled' = signalled
    /\ users' = users
    /\ \A j \in Sessions \ {i} : sess'[j] = sess[j]

\* C19 as stated: a step of one session, a failing one included, leaves
\* the process, the accept loop and every other session alone, and the
\* sessions share nothing but the configuration, which none of them
\* changes.
C19_SessionsShareOnlyConfig ==
    [][\A i \in Sessions :
          SessStep(i) => C19_Untouched(i) /\ pool' = pool]_vars

\* C19, amended: a step of one session, a failing one included, leaves the
\* process, the accept loop and the state of every other session alone;
\* the configuration is shared and never changed, and the buffer pool is
\* shared too and changed by the sessions that relay.
C19_SessionsAreIsolated ==
    /\ [][\A i \in Sessions : SessStep(i) => C19_Untouched(i)]_vars
    /\ [](LoopEnded => acceptErr # Nil)

\* one session has failed in its handshake while another relays, and main
\* still accepts on the open listener
C19_Witness ==
    /\ mainPc = "accept"
    /\ listener = "open"
    /\ \E i, j \in Sessions :
          /\ sess[i].st = "ended"
          /\ \A d \in Dirs : sess[i].tasks[d] = "idle"
          /\ sess[j].st = "relay"
          /\ \E d \in Dirs : sess[j].tasks[d] = "copy"

(***************************************************************************)
(* C20                                                                     *)
(***************************************************************************)
\* the handshake still waits for bytes of the client
Handshaking == pc \in ReadPcs

C20_State ==
    /\ Handshaking => deadline = HandshakeTimeout
    /\ stalled /\ Handshaking => ENABLED HandlerStep
    /\ stalled => dials = <<>> /\ ~RelayStarted /\ targetCloses = 0
    /\ stalled /\ pc = "done" =>
           /\ connCloses = 1
           /\ (IF negErr = "nil" THEN reqErr ELSE negErr)
                  \in {"i/o timeout", "EOF"}
           /\ ~peerGone =>
                  /\ now = HandshakeTimeout
                  /\ (IF negErr = "nil" THEN reqErr ELSE negErr)
                         = "i/o timeout"

\* C20: a session whose client stops sending before its authentication or
\* its request is complete is ended by the handshake deadline: the read in
\* which the handler is blocked fails when the deadline comes, the
\* handling goroutine ends and the client socket is closed, and no
\* outbound dial has been made.
C20_StalledHandshakeEnds ==
    /\ [](C20_State)
    /\ stalled ~> (pc = "done" /\ connCloses = 1)

\* the client stalled after authenticating, in the middle of its request;
\* the read timed out at the deadline and the session has ended
C20_Witness ==
    /\ stalled
    /\ ~peerGone
    /\ pc = "done"
    /\ negErr = "nil"
    /\ reqErr = "i/o timeout"
    /\ reqRead > 0
    /\ now = HandshakeTimeout
    /\ connCloses = 1
    /\ dials = <<>>

(***************************************************************************)
(* C21                                                                     *)
(***************************************************************************)
\* the classes of the claim, each as the code recognises it
IsTimeout(err) == err.timeout
IsRefused(err) == err.refused \/ "connection refused" \in err.text
IsNameFailure(err) == err.dns
IsNetUnreachable(err) == "network is unreachable" \in err.text

\* C21 as stated: the reply code is a function of the classes of the
\* error: 0x04 for a timeout, else 0x05 for a refusal, else 0x04 for a
\* name-resolution failure, else 0x03 for network unreachable, else 0x01.
C21_MappingByClass ==
    mapRep # Nil =>
        mapRep[1] = (IF IsTimeout(mapErr) THEN REP_HOST_UNREACHABLE
                  ELSE IF IsRefused(mapErr) THEN REP_CONNECTION_REFUSED
                  ELSE IF IsNameFailure(mapErr) THEN REP_HOST_UNREACHABLE
                  ELSE IF IsNetUnreachable(mapErr)
                       THEN REP_NETWORK_UNREACHABLE
                  ELSE REP_GENERAL_FAILURE)

\* C21, amended: mapDialError answers for every error, never with 0x00.
\* A timeout gives 0x04; else a refusal found by its errno gives 0x05;
\* else a name-resolution failure gives 0x04; else a message that contains
\* "connection refused" gives 0x05; else a message that contains "network
\* is unreachable" gives 0x03; every other error gives 0x01.
C21_MappingInCodeOrder ==
    /\ mapRep = Nil => ENABLED CallMapDialError
    /\ mapRep # Nil =>
        /\ mapRep[1] \in {REP_GENERAL_FAILURE, REP_NETWORK_UNREACHABLE,
                        REP_HOST_UNREACHABLE, REP_CONNECTION_REFUSED}
        /\ mapRep[1] # REP_SUCCESS
        /\ mapErr.timeout => mapRep[1] = REP_HOST_UNREACHABLE
        /\ ~mapErr.timeout /\ mapErr.refused =>
               mapRep[1] = REP_CONNECTION_REFUSED
        /\ ~mapErr.timeout /\ ~mapErr.refused /\ mapErr.dns =>
               mapRep[1] = REP_HOST_UNREACHABLE
        /\ ~mapErr.timeout /\ ~mapErr.refused /\ ~mapErr.dns =>
               mapRep[1] = (IF "connection refused" \in mapErr.text
                         THEN REP_CONNECTION_REFUSED
                         ELSE IF "network is unreachable" \in mapErr.text
                         THEN REP_NETWORK_UNREACHABLE
                         ELSE REP_GENERAL_FAILURE)

\* a name-resolution failure whose message says that the connection to
\* the resolver was refused has been mapped to 0x04
C21_Witness ==
    /\ mapRep = <<REP_HOST_UNREACHABLE>>
    /\ mapErr.dns
    /\ ~mapErr.timeout
    /\ ~mapErr.refused
    /\ "connection refused" \in mapErr.text

(***************************************************************************)
(* C22                                                                     *)
(***************************************************************************)
\* the request has been read to its end and handed to the dial
Dialled == Len(dials) = 1 /\ HeaderRead

\* C22: the address and the port parsed from a request are the ones the
\* client encoded, and the dial step is handed exactly that pair; here for
\* a request that names a 16-byte address which is not an IPv4 address in
\* disguise: the dialer is given an address it can take apart into that
\* address and that port.
C22_Ipv6DialGetsAddressAndPort ==
    Dialled /\ reqHeader[4] = ATYP_IPV6 /\ dstAddr.text = "groups" =>
        /\ dials[1] = TargetAddr(dstAddr, dstPort)
        /\ DialAddrOK(dials[1])

\* what the code does: the IPv4 and the domain forms and the port come
\* through unchanged, an IPv4-mapped 16-byte address is dialled as the
\* IPv4 address, and every other 16-byte address fails in the dialer
\* before any connection is tried
C22_ParsedAddressAsDialled ==
    Dialled =>
        /\ dials[1] = TargetAddr(dstAddr, dstPort)
        /\ dstPort \in {Uint16(p) : p \in PortBytes}
        /\ reqHeader[4] = ATYP_IPV4 =>
               dstAddr.text = "dotted" /\ dstAddr.v \in IPv4Addrs
        /\ reqHeader[4] = ATYP_DOMAINNAME =>
               dstAddr.text = "name" /\ Len(dstAddr.v) = domainLen
        /\ reqHeader[4] = ATYP_IPV6 =>
               \/ dstAddr.text = "dotted" /\ IPv4(dstAddr.v) \in IPv6Addrs
               \/ /\ dstAddr.text = "groups"
                  /\ pc # "req_dial_reply" \/ dialErr = ErrAddr
                  /\ targetLocal = Nil

(***************************************************************************)
(* C23                                                                     *)
(***************************************************************************)
C23_State ==
    /\ MethodReplies \subseteq {1}
    /\ StatusReplies \subseteq {2}
    /\ RequestReplies \subseteq {Len(out)}
    /\ out # <<>> => 1 \in MethodReplies /\ negRead >= 2
    /\ StatusReplies # {} =>
           out[1].data = <<VERSION, AUTH_USERNAME>> /\ presented # <<>>
    /\ reqRead > 0 =>
           /\ negErr = "nil"
           /\ out # <<>>
           /\ out[1].data[2] \in {AUTH_NONE, AUTH_USERNAME}
           /\ out[1].data[2] = AUTH_USERNAME =>
                  Len(out) >= 2 /\ out[2].data = <<SUBNEG_VERSION, 0>>
    /\ RequestReplies # {} => reqRead >= 4
    /\ dials # <<>> => RequestRead
    /\ RequestReplies # {} /\ TheReply.data[2] = REP_SUCCESS =>
           dials # <<>> /\ targetLocal # Nil
    /\ RelayStarted =>
           /\ RequestReplies # {}
           /\ TheReply.data[2] = REP_SUCCESS
           /\ TheReply.ok
    /\ (\A d \in Dirs : task[d] = "copy") =>
           \A d \in Dirs : ENABLED RelayCopy(d)

C23_Step ==
    /\ negRead' # negRead =>
           reqRead = 0 /\ dials = <<>> /\ RequestReplies = {} /\ out' = out
    /\ reqRead' # reqRead =>
           dials = <<>> /\ RequestReplies = {} /\ out' = out
    /\ dials' # dials =>
           dials = <<>> /\ RequestReplies = {} /\ out' = out
    /\ out' # out =>
           /\ ~RelayStarted
           /\ negRead' = negRead
           /\ reqRead' = reqRead
           /\ dials' = dials
    /\ RelayStarted =>
           /\ negRead' = negRead
           /\ reqRead' = reqRead
           /\ dials' = dials
           /\ out' = out

\* C23: in a session the greeting is read before the method reply is
\* written, the credentials are read and answered only after the method
\* reply 05 02, the request is read only after the negotiation has
\* succeeded, the dial is made only after the whole request is read, the
\* request reply is the last thing written, and the relay starts only
\* after the success reply has gone out; no step is taken while an
\* earlier one is unfinished, and once the relay has started the two
\* directions can each go first.
C23_StepsInOrder == [](C23_State) /\ [][C23_Step]_vars

\* a session with credentials has gone through every step: three writes
\* in order, one dial, and one relay direction done before the other
C23_Witness ==
    /\ Len(out) = 3
    /\ StatusReplies = {2}
    /\ RequestReplies = {3}
    /\ Len(dials) = 1
    /\ task["c2t"] = "done"
    /\ task["t2c"] = "copy"

(***************************************************************************)
(* C24                                                                     *)
(***************************************************************************)
C24_State ==
    /\ (\E d \in Dirs : task[d] # "idle") =>
           /\ deadline = NoDeadline
           /\ deadlineLog = <<HandshakeTimeout, NoDeadline>>
           /\ ~TimedOut("client")
    /\ \A d \in Dirs :
           /\ copyErr[d] # "i/o timeout"
           /\ copyErr[d] = "read error" => SocketDead(Src(d))
           /\ copyErr[d] = "write error" => SocketDead(Dst(d))

C24_Step ==
    /\ deadline' # deadline =>
           /\ \A d \in Dirs : task[d] = "idle"
           /\ deadline' = NoDeadline
    /\ (\E d \in Dirs : task[d] # "idle") => deadlineLog' = deadlineLog

\* C24: the deadline of the client socket is removed in the step that
\* starts the relay goroutines and is never set again, so whatever the
\* clock shows during the relay no Read or Write of a relay goroutine
\* fails with a timeout: a copy ends in an error only when its socket is
\* gone or closed.
C24_NoDeadlineInRelay == [](C24_State) /\ [][C24_Step]_vars

\* the relay is still running, with nothing read yet from the client, two
\* handshake timeouts after the session began
C24_Witness ==
    /\ now >= 2 * HandshakeTimeout
    /\ \A d \in Dirs : task[d] = "copy" /\ copyErr[d] = "pending"
    /\ rd["c2t"] = 0
    /\ Len(recv["t2c"]) > 0
    /\ ~peerGone

(***************************************************************************)
(* C25                                                                     *)
(***************************************************************************)
BadVersion == "invalid protocol version"

C25_State ==
    /\ pc = "neg_returned" /\ header # <<>> /\ header[1] # VERSION =>
           negErr = BadVersion
    /\ negErr = BadVersion =>
           /\ out = <<>>
           /\ negRead = 2
           /\ methods = <<>>
           /\ reqRead = 0
           /\ dials = <<>>
           /\ pc \in {"neg_returned", "done"}
           /\ pc = "neg_returned" =>
                  /\ header[1] # VERSION
                  /\ connCloses = 0
                  /\ ENABLED AfterNegotiate
           /\ pc = "done" => connCloses = 1

C25_Step ==
    /\ pc = "neg_header" /\ header' # <<>> /\ header'[1] # VERSION =>
           /\ pc' = "neg_returned"
           /\ negErr' = BadVersion
    /\ negErr = BadVersion =>
           /\ out' = out
           /\ negRead' = negRead
           /\ negErr' = negErr
           /\ pc' # pc => pc = "neg_returned" /\ pc' = "done"

\* C25: a greeting whose first byte is not 0x05 makes negotiateAuth return
\* "invalid protocol version" straight after the two header bytes: no
\* method byte is read, nothing is ever written to the client, no request
\* is read, no dial is made, and the next step of the handler closes the
\* connection.
C25_BadVersionClosesSilently == [](C25_State) /\ [][C25_Step]_vars

\* the connection of a client that greeted with version 4 has been closed
C25_Witness ==
    /\ pc = "done"
    /\ negErr = BadVersion
    /\ connCloses = 1
    /\ out = <<>>
    /\ negRead = 2

(***************************************************************************)
(* C26                                                                     *)
(***************************************************************************)
\* the relay tasks of the server
Tasks == Sessions \X Dirs

BufOf(t) == sess[t[1]].bufs[t[2]]

TaskAt(t) == sess[t[1]].tasks[t[2]]

C26_State ==
    /\ \A t, u \in Tasks : BufOf(t) # 0 /\ t # u => BufOf(t) # BufOf(u)
    /\ Held \cap pool = {}
    /\ \A t \in Tasks : TaskAt(t) = "copy" <=> BufOf(t) # 0

C26_Step ==
    /\ \A t \in Tasks :
           /\ TaskAt(t) = "copy" /\ TaskAt(t)' # "copy" =>
                  /\ TaskAt(t)' = "done"
                  /\ BufOf(t) \notin pool
                  /\ BufOf(t) \in pool'
           /\ TaskAt(t) = "copy" /\ TaskAt(t)' = "copy" => BufOf(t)' = BufOf(t)
           /\ TaskAt(t) = "done" => TaskAt(t)' = "done"
    /\ \A b \in pool' \ pool :
           \E t \in Tasks : BufOf(t) = b /\ TaskAt(t)' = "done"
    /\ Cardinality(pool' \ pool) <= 1

\* C26: whatever the number of sessions in their relay phase, no buffer is
\* in the hands of two relay tasks at once, of one session or of two, and
\* no buffer a task holds is in the pool; a task holds its buffer from
\* getBuf until its copy loop returns, and the step that ends the copy
\* loop puts that buffer back in the pool, once, after which the task
\* never holds a buffer again.
C26_BuffersAreExclusive == [](C26_State) /\ [][C26_Step]_vars

\* two sessions relay at once: three tasks copy, each with a buffer of its
\* own, after a fourth has ended and put its buffer back
C26_Witness ==
    \E i, j \in Sessions :
        /\ i # j
        /\ sess[i].st = "relay" /\ sess[j].st = "relay"
        /\ \A d \in Dirs : sess[i].tasks[d] = "copy"
        /\ sess[j].tasks["c2t"] = "copy"
        /\ sess[j].tasks["t2c"] = "done"
        /\ pool # {}

(***************************************************************************)
(* C27                                                                     *)
(***************************************************************************)
\* the peer behind the source of a direction has ended its sending side
SourceEnded(d) == srcEOF[d] \/ Gone(Src(d))

SessionOver ==
    /\ \A d \in Dirs : task[d] = "done"
    /\ wg = 0
    /\ pc = "done"
    /\ connCloses = 1
    /\ targetCloses = 1

\* C27: once the client and the target have both ended their sending
\* side, by the end of the stream or by a failure of the connection, both
\* relay goroutines finish, wg.Wait() returns, handleRequest returns and
\* both sockets are closed.
C27_RelayEndsAfterSources == (\A d \in Dirs : SourceEnded(d)) ~> SessionOver

\* the same while every peer keeps reading what is relayed to it
C27_RelayEndsWhilePeersRead ==
    ((\A d \in Dirs : SourceEnded(d)) /\ blocked = {}) ~>
        (SessionOver \/ blocked # {})

====
